---- MODULE Spec2Model ----
(***************************************************************************)
(* A model of beacon's durable-delivery pipeline: the watcher (Observer),  *)
(* the SQLite log (managed_objects table), the notifier (Delivery Worker)  *)
(* and the cleaner.                                                        *)
(*                                                                         *)
(* Time is counted in clock ticks; TicksPerSecond ticks make one second.   *)
(* The log stores timestamps as RFC3339 text, which has whole seconds      *)
(* only, so a stored timestamp is a number of seconds.                     *)
(***************************************************************************)
EXTENDS Integers, Sequences, FiniteSets, TLC

(***************************************************************************)
(* Bounds of the model.                                                    *)
(***************************************************************************)
MaxNow == 2
MaxInserts == 2
MaxFailures == 2

(***************************************************************************)
(* Configuration of the program and constants of its code.                 *)
(***************************************************************************)
TicksPerSecond == 4
BatchSize == 1
PollInterval == 1
RetentionPeriod == 1
MaxAttempts == 2
InitialBackoff == 8
MaxBackoff == 16
BackoffMultiplier == 2
JitterPercent == 50
ReconcileTimeout == 2

UIDs == {"u1", "u2"}
ResourceType == "Pod"
MarkerValue == "managed"
\* annotation.values: the marker values the configuration accepts
AnnotationValues == {MarkerValue}

MarkerValues == {MarkerValue, "changed"}
\* the configured resources, and the kind of each resource of the cluster
Kinds == <<ResourceType, "Widget">>
KindOf(uid) == IF uid = "u1" THEN Kinds[1] ELSE Kinds[2]
\* how the reconciliation of a kind goes
Outcomes == {"ok", "listError", "queryError"}

ClusterStateExists == "exists"
ClusterStateDeleted == "deleted"
DetectionSourceWatch == "watch"
DetectionSourceMutation == "mutation"
DetectionSourceReconciliation == "reconciliation"

NULL == -1
Threads == {1, 2}
Idle == [pc |-> "idle"]
\* the reconciler's loop before Start runs
\* server.New: no event id tracked, no event recorded
NewServer == [seenList |-> <<>>, recorded |-> {}]

NotStarted == [pc |-> "start", since |-> NULL, kinds |-> <<>>]
\* the reconciler has not made a pass
NoPass == [ran |-> FALSE, created |-> {}, deleted |-> {}, present |-> {},
           differs |-> {}, listed |-> {}, failed |-> {}]
None == [none |-> TRUE]
\* main has started the goroutines and waits for a signal
Running == [main |-> "ready", ctx |-> FALSE, watching |-> TRUE, since |-> NULL,
            n |-> "select", c |-> "select", late |-> {}]

VARIABLES
    now,        \* the wall clock, in ticks
    cluster,    \* per resource uid: "absent", "unmarked", "marked" or "gone"
    relist,     \* the uids whose add the restarted informers still owe
    log,        \* the rows of managed_objects, in rowid order
    nextId,     \* the number of record ids generated so far
    tickReady,  \* the notifier's ticker has a tick waiting in its channel
    wpc,        \* the notifier's position: "idle", "batch" or "resp"
    pending,    \* the rest of the batch poll is iterating over
    inflight,   \* the request processNotification sent last, or None
    resp,       \* the endpoint's answer to it, or None
    eligible,   \* the ids of the cleaner's pass that are still to delete
    cb,         \* per callback goroutine: the callback it is running, or Idle
    pass,       \* ghost: what the reconciler's pass did, if it is the last step
    rec,        \* the reconciler's loop: its position and the pass it is in
    sd,         \* main's shutdown sequence, the token and the loops' positions
    acked,      \* the <<id, eventType>> pairs the endpoint answered 2xx
    rejected,   \* the <<id, status>> pairs the endpoint answered non-retriably
    server      \* the test endpoint: the event ids it tracks, the events recorded

dbVars == <<log, nextId>>
workerVars == <<tickReady, wpc, pending, inflight, resp>>
ghostVars == <<acked, rejected, server>>
loopVars == <<rec, sd>>
vars == <<now, cluster, relist, log, nextId, tickReady, wpc, pending, inflight, resp,
          eligible, cb, pass, rec, sd, acked, rejected, server>>

(***************************************************************************)
(* Timestamps.  time.Format(time.RFC3339) drops the fraction of a second,  *)
(* time.Parse gives the start of the second back.                          *)
(***************************************************************************)
FormatRFC3339(t) == t \div TicksPerSecond

ParseRFC3339(s) == s * TicksPerSecond

formatNullableTime(t) == IF t = NULL THEN NULL ELSE FormatRFC3339(t)

parseNullableTime(s) == IF s = NULL THEN NULL ELSE ParseRFC3339(s)

(***************************************************************************)
(* A ManagedObject as the watcher and the reconciler build it, with times  *)
(* in ticks.                                                               *)
(***************************************************************************)
ManagedObject(id, uid, value, state, source, createdAt) ==
    [ID |-> id,
     ResourceUID |-> uid,
     ResourceType |-> KindOf(uid),
     AnnotationValue |-> value,
     ClusterState |-> state,
     DetectionSource |-> source,
     CreatedAt |-> createdAt,
     DeletedAt |-> NULL,
     LastReconciled |-> NULL,
     NotifiedCreated |-> FALSE,
     NotifiedDeleted |-> FALSE,
     NotificationFailed |-> FALSE,
     NotificationFailedCode |-> 0,
     CreatedNotificationSentAt |-> NULL,
     DeletedNotificationSentAt |-> NULL,
     NotificationAttempts |-> 0,
     LastNotificationAttempt |-> NULL,
     Labels |-> <<>>,
     Annotations |-> <<>>]

(***************************************************************************)
(* The row INSERT stores for an object, and the object a SELECT scans from *)
(* a row.                                                                  *)
(***************************************************************************)
RowOf(obj) ==
    [obj EXCEPT !.CreatedAt = FormatRFC3339(obj.CreatedAt),
                !.DeletedAt = formatNullableTime(obj.DeletedAt),
                !.LastReconciled = formatNullableTime(obj.LastReconciled),
                !.CreatedNotificationSentAt =
                    formatNullableTime(obj.CreatedNotificationSentAt),
                !.DeletedNotificationSentAt =
                    formatNullableTime(obj.DeletedNotificationSentAt),
                !.LastNotificationAttempt =
                    formatNullableTime(obj.LastNotificationAttempt)]

scanManagedObject(row) ==
    [row EXCEPT !.CreatedAt = ParseRFC3339(row.CreatedAt),
                !.DeletedAt = parseNullableTime(row.DeletedAt),
                !.LastReconciled = parseNullableTime(row.LastReconciled),
                !.CreatedNotificationSentAt =
                    parseNullableTime(row.CreatedNotificationSentAt),
                !.DeletedNotificationSentAt =
                    parseNullableTime(row.DeletedNotificationSentAt),
                !.LastNotificationAttempt =
                    parseNullableTime(row.LastNotificationAttempt)]

(***************************************************************************)
(* Helpers on sequences of rows.                                           *)
(***************************************************************************)
Range(s) == {s[i] : i \in 1..Len(s)}

MapRows(f(_), l) == [i \in 1..Len(l) |-> f(l[i])]

FilterRows(test(_), l) == SelectSeq(l, test)

Take(l, n) == IF Len(l) <= n THEN l ELSE SubSeq(l, 1, n)

RECURSIVE InsertByCreatedAt(_, _)
InsertByCreatedAt(sorted, row) ==
    IF sorted = <<>> THEN <<row>>
    ELSE IF sorted[Len(sorted)].CreatedAt <= row.CreatedAt
         THEN Append(sorted, row)
         ELSE Append(InsertByCreatedAt(SubSeq(sorted, 1, Len(sorted) - 1), row),
                     sorted[Len(sorted)])

\* a variant that returns the rows in rowid order
OrderByCreatedAt_Unordered(l) == l

\* ORDER BY created_at ASC; rows with equal created_at stay in rowid order.
RECURSIVE OrderByCreatedAt(_)
OrderByCreatedAt(l) ==
    IF l = <<>> THEN <<>>
    ELSE InsertByCreatedAt(OrderByCreatedAt(SubSeq(l, 1, Len(l) - 1)), l[Len(l)])

(***************************************************************************)
(* The operations of SQLiteDB.  Each takes the table and gives the table   *)
(* after the statement, or the objects the query returns.                  *)
(***************************************************************************)
\* id is the PRIMARY KEY: an INSERT with an id the table holds fails.
InsertManagedObject(l, obj) ==
    IF \E i \in 1..Len(l) : l[i].ID = obj.ID THEN l
    ELSE Append(l, RowOf(obj))

\* the row of an id in a table
HasId(l, id) == \E i \in 1..Len(l) : l[i].ID = id

ById(l, id) == l[CHOOSE i \in 1..Len(l) : l[i].ID = id]

\* SELECT ... WHERE resource_uid = ?, QueryRow keeps the first row.
GetManagedObjectByUID(l, uid) ==
    LET hits == FilterRows(LAMBDA r : r.ResourceUID = uid, l)
    IN  IF hits = <<>> THEN None ELSE scanManagedObject(hits[1])

GetManagedObjectByID(l, id) ==
    LET hits == FilterRows(LAMBDA r : r.ID = id, l)
    IN  IF hits = <<>> THEN None ELSE scanManagedObject(hits[1])

\* a variant that also records who made the change
UpdateClusterState_SetsSource(l, uid, state, deletedAt) ==
    MapRows(LAMBDA r : IF r.ResourceUID = uid
                       THEN [r EXCEPT !.ClusterState = state,
                                      !.DeletedAt = formatNullableTime(deletedAt),
                                      !.DetectionSource = DetectionSourceReconciliation]
                       ELSE r, l)

UpdateClusterState(l, uid, state, deletedAt) ==
    MapRows(LAMBDA r : IF r.ResourceUID = uid
                       THEN [r EXCEPT !.ClusterState = state,
                                      !.DeletedAt = formatNullableTime(deletedAt)]
                       ELSE r, l)

\* a variant that also clears the retry counter on success
UpdateNotificationStatus_ResetsAttempts(l, id, eventType, sentAt) ==
    MapRows(LAMBDA r : IF r.ID = id
                       THEN [r EXCEPT !.NotifiedCreated = (eventType = "created") \/ @,
                                      !.NotifiedDeleted = (eventType = "deleted") \/ @,
                                      !.CreatedNotificationSentAt =
                                          IF eventType = "created"
                                          THEN FormatRFC3339(sentAt) ELSE @,
                                      !.DeletedNotificationSentAt =
                                          IF eventType = "deleted"
                                          THEN FormatRFC3339(sentAt) ELSE @,
                                      !.NotificationAttempts = 0]
                       ELSE r, l)

UpdateNotificationStatus(l, id, eventType, sentAt) ==
    IF eventType = "created"
    THEN MapRows(LAMBDA r : IF r.ID = id
                            THEN [r EXCEPT !.NotifiedCreated = TRUE,
                                           !.CreatedNotificationSentAt =
                                               FormatRFC3339(sentAt)]
                            ELSE r, l)
    ELSE IF eventType = "deleted"
    THEN MapRows(LAMBDA r : IF r.ID = id
                            THEN [r EXCEPT !.NotifiedDeleted = TRUE,
                                           !.DeletedNotificationSentAt =
                                               FormatRFC3339(sentAt)]
                            ELSE r, l)
    ELSE l

\* a variant that keeps a sum of the status codes it was called with
MarkNotificationFailed_AddsCode(l, id, statusCode) ==
    MapRows(LAMBDA r : IF r.ID = id
                       THEN [r EXCEPT !.NotificationFailed = TRUE,
                                      !.NotificationFailedCode = @ + statusCode]
                       ELSE r, l)

MarkNotificationFailed(l, id, statusCode) ==
    MapRows(LAMBDA r : IF r.ID = id
                       THEN [r EXCEPT !.NotificationFailed = TRUE,
                                      !.NotificationFailedCode = statusCode]
                       ELSE r, l)

\* a variant that counts the attempt without recording its time
IncrementNotificationAttempts_NoTimestamp(l, id, at) ==
    MapRows(LAMBDA r : IF r.ID = id
                       THEN [r EXCEPT !.NotificationAttempts = @ + 1]
                       ELSE r, l)

IncrementNotificationAttempts(l, id, at) ==
    MapRows(LAMBDA r : IF r.ID = id
                       THEN [r EXCEPT !.NotificationAttempts = @ + 1,
                                      !.LastNotificationAttempt = FormatRFC3339(at)]
                       ELSE r, l)

UpdateLastReconciled(l, id, reconciledAt) ==
    MapRows(LAMBDA r : IF r.ID = id
                       THEN [r EXCEPT !.LastReconciled = FormatRFC3339(reconciledAt)]
                       ELSE r, l)

\* a variant that leaves out every row that was attempted before
PendingRow_FirstAttemptOnly(r) ==
    /\ \/ ~r.NotifiedCreated
       \/ (r.ClusterState = ClusterStateDeleted /\ ~r.NotifiedDeleted)
    /\ ~r.NotificationFailed
    /\ r.NotificationAttempts = 0

\* a variant without the deleted-and-not-notified alternative
PendingRow_CreatedOnly(r) ==
    /\ ~r.NotifiedCreated
    /\ ~r.NotificationFailed

\* the WHERE clause of GetPendingNotifications
PendingRow(r) ==
    /\ \/ ~r.NotifiedCreated
       \/ (r.ClusterState = ClusterStateDeleted /\ ~r.NotifiedDeleted)
    /\ ~r.NotificationFailed

GetPendingNotifications(l, limit) ==
    MapRows(scanManagedObject,
            Take(OrderByCreatedAt(FilterRows(PendingRow, l)), limit))

GetAllActiveObjects(l, resourceType) ==
    MapRows(scanManagedObject,
            FilterRows(LAMBDA r : /\ r.ClusterState = ClusterStateExists
                                  /\ r.ResourceType = resourceType, l))

\* a variant without the notification_failed = 0 condition
CleanupEligibleRow_IgnoresFailed(r, cutoff) ==
    /\ r.ClusterState = ClusterStateDeleted
    /\ r.NotifiedDeleted
    /\ r.DeletedAt # NULL
    /\ r.DeletedAt < cutoff

\* a variant that takes a deleted_at equal to the cutoff as well
CleanupEligibleRow_AtCutoff(r, cutoff) ==
    /\ r.ClusterState = ClusterStateDeleted
    /\ r.NotifiedDeleted
    /\ ~r.NotificationFailed
    /\ r.DeletedAt # NULL
    /\ r.DeletedAt <= cutoff

\* The WHERE clause of GetCleanupEligible; deleted_at < ? is false for a
\* NULL deleted_at.
CleanupEligibleRow(r, cutoff) ==
    /\ r.ClusterState = ClusterStateDeleted
    /\ r.NotifiedDeleted
    /\ ~r.NotificationFailed
    /\ r.DeletedAt # NULL
    /\ r.DeletedAt < cutoff

GetCleanupEligible(l, retentionPeriod, at) ==
    LET cutoff == FormatRFC3339(at - retentionPeriod)
    IN  MapRows(scanManagedObject,
                FilterRows(LAMBDA r : CleanupEligibleRow(r, cutoff), l))

DeleteRecord(l, id) == FilterRows(LAMBDA r : r.ID # id, l)

(***************************************************************************)
(* The watcher.  A cluster object is its uid and whether it carries the    *)
(* marker annotation.                                                      *)
(***************************************************************************)
KubeObject(uid, marked) ==
    [UID |-> uid, Annotated |-> marked,
     Value |-> IF marked THEN MarkerValue ELSE ""]

\* (found, value) of the marker annotation
hasAnnotation(obj) == <<obj.Annotated, obj.Value>>

\* json.Marshal of the labels of an object, as a value of the model
labelsJSON(obj) == <<"labels", obj.UID>>

extractManagedObject(obj, id, at) ==
    [ManagedObject(id, obj.UID, obj.Value, "", "", at) EXCEPT !.Labels = labelsJSON(obj)]

\* a variant that records the resource whether or not it carries the marker
handleAdd_Unconditional(l, obj, detectionSource, id, at) ==
    LET mo == extractManagedObject(obj, id, at)
        annotationValue == hasAnnotation(obj)[2]
    IN  InsertManagedObject(l,
            [mo EXCEPT !.AnnotationValue = annotationValue,
                       !.DetectionSource = detectionSource,
                       !.ClusterState = ClusterStateExists])

\* The table after handleAdd(obj, resourceType, detectionSource).
handleAdd(l, obj, detectionSource, id, at) ==
    LET mo == extractManagedObject(obj, id, at)
        annotated == hasAnnotation(obj)[1]
        annotationValue == hasAnnotation(obj)[2]
    IN  IF ~annotated THEN l
        ELSE InsertManagedObject(l,
                 [mo EXCEPT !.AnnotationValue = annotationValue,
                            !.DetectionSource = detectionSource,
                            !.ClusterState = ClusterStateExists])

\* The table after handleUpdate(oldObj, newObj, resourceType).
handleUpdate(l, oldObj, newObj, id, at) ==
    LET oldAnnotated == hasAnnotation(oldObj)[1]
        newAnnotated == hasAnnotation(newObj)[1]
    IN  IF ~oldAnnotated /\ newAnnotated
        THEN handleAdd(l, newObj, DetectionSourceMutation, id, at)
        ELSE IF oldAnnotated /\ ~newAnnotated
        THEN UpdateClusterState(l, oldObj.UID, ClusterStateDeleted, at)
        ELSE l

\* The table after handleDelete(obj, resourceType).
handleDelete(l, obj, at) ==
    LET existing == GetManagedObjectByUID(l, obj.UID)
    IN  IF existing = None THEN l
        ELSE UpdateClusterState(l, obj.UID, ClusterStateDeleted, at)

Inserted(l1, l2) == Len(l2) > Len(l1)

\* AddFunc: a resource appears in the cluster.
OnAdd(uid, marked) ==
    /\ cluster[uid] = "absent"
    /\ uid \notin relist
    /\ cluster' = [cluster EXCEPT ![uid] = IF marked THEN "marked" ELSE "unmarked"]
    /\ log' = handleAdd(log, KubeObject(uid, marked), DetectionSourceWatch,
                        nextId + 1, now)
    /\ Inserted(log, log') => nextId < MaxInserts
    /\ nextId' = IF Inserted(log, log') THEN nextId + 1 ELSE nextId
    /\ UNCHANGED <<now, relist, workerVars, eligible, cb, ghostVars, loopVars>>
    /\ pass' = NoPass

\* UpdateFunc: a resource of the cluster is modified.
OnUpdate(uid, marked) ==
    /\ cluster[uid] \in {"unmarked", "marked"}
    /\ uid \notin relist
    /\ cluster' = [cluster EXCEPT ![uid] = IF marked THEN "marked" ELSE "unmarked"]
    /\ log' = handleUpdate(log, KubeObject(uid, cluster[uid] = "marked"),
                           KubeObject(uid, marked), nextId + 1, now)
    /\ Inserted(log, log') => nextId < MaxInserts
    /\ nextId' = IF Inserted(log, log') THEN nextId + 1 ELSE nextId
    /\ UNCHANGED <<now, relist, workerVars, eligible, cb, ghostVars, loopVars>>
    /\ pass' = NoPass

\* DeleteFunc: a resource leaves the cluster.
OnDelete(uid) ==
    /\ cluster[uid] \in {"unmarked", "marked"}
    /\ uid \notin relist
    /\ cluster' = [cluster EXCEPT ![uid] = "gone"]
    /\ log' = handleDelete(log, KubeObject(uid, cluster[uid] = "marked"), now)
    /\ UNCHANGED <<now, relist, nextId, workerVars, eligible, cb, ghostVars, loopVars>>
    /\ pass' = NoPass

(***************************************************************************)
(* The notifier.                                                           *)
(***************************************************************************)
isRetriable(statusCode) == statusCode \in {408, 429, 500, 502, 503, 504}

\* the retriable codes of the retry rules
RetriableCodes == {408, 429, 500, 502, 503, 504}

IsSuccess(statusCode) == statusCode >= 200 /\ statusCode < 300

\* what the endpoint may answer
EndpointStatuses == {200, 299, 400, 500}

NetworkError == [err |-> TRUE, StatusCode |-> 0]

Response(statusCode) == [err |-> FALSE, StatusCode |-> statusCode]

\* a variant that looks at the deletion first
EventTypeOf_DeletedFirst(obj) ==
    IF obj.ClusterState = ClusterStateDeleted /\ ~obj.NotifiedDeleted
    THEN "deleted"
    ELSE IF ~obj.NotifiedCreated THEN "created" ELSE ""

\* the event type processNotification picks for an object, "" for none
EventTypeOf(obj) ==
    IF ~obj.NotifiedCreated THEN "created"
    ELSE IF obj.ClusterState = ClusterStateDeleted /\ ~obj.NotifiedDeleted
         THEN "deleted"
         ELSE ""

\* the payload buildPayload makes: the event id is the record's id
buildPayload(obj, eventType) ==
    [ID |-> obj.ID, EventType |-> eventType, UID |-> obj.ResourceUID]

\* the fields of a fetched object the notifier reads
Fetched(obj) ==
    [ID |-> obj.ID,
     ResourceUID |-> obj.ResourceUID,
     ClusterState |-> obj.ClusterState,
     NotifiedCreated |-> obj.NotifiedCreated,
     NotifiedDeleted |-> obj.NotifiedDeleted,
     NotificationAttempts |-> obj.NotificationAttempts,
     LastNotificationAttempt |-> obj.LastNotificationAttempt]

\* the failed deliveries the log and the endpoint's answers count so far
RECURSIVE TotalAttempts(_)
TotalAttempts(l) ==
    IF l = <<>> THEN 0
    ELSE l[1].NotificationAttempts + TotalAttempts(Tail(l))

FailuresSoFar == TotalAttempts(log) + Cardinality(rejected)

\* The clock advances; the ticker of Start fires every PollInterval.
\* Past the horizon the clock shows the horizon.
Tick(horizon) ==
    /\ now' = IF now < horizon THEN now + 1 ELSE now
    /\ tickReady' = IF now < horizon /\ now' % PollInterval # 0
                    THEN tickReady ELSE TRUE
    /\ UNCHANGED <<cluster, relist, dbVars, wpc, pending, inflight, resp, eligible, cb, ghostVars,
                   loopVars>>
    /\ pass' = NoPass

\* poll: fetch the batch.
Poll ==
    /\ wpc = "idle"
    /\ tickReady
    /\ tickReady' = FALSE
    /\ pending' = MapRows(Fetched, GetPendingNotifications(log, BatchSize))
    /\ wpc' = IF pending' = <<>> THEN "idle" ELSE "batch"
    /\ UNCHANGED <<now, cluster, relist, dbVars, inflight, resp, eligible, cb, ghostVars,
                   loopVars>>
    /\ pass' = NoPass

\* processNotification up to the return of client.Do: the request of the
\* next object of the batch goes out, and the endpoint answers it with r or
\* the request fails.  The endpoint recovers: once MaxFailures failed
\* deliveries are on record it answers 2xx.
Deliver(r) ==
    /\ wpc = "batch"
    /\ LET obj == Head(pending)
           eventType == EventTypeOf(obj)
       IN  IF eventType = ""
           THEN /\ wpc' = IF Tail(pending) = <<>> THEN "idle" ELSE "batch"
                /\ UNCHANGED <<inflight, resp, acked, rejected>>
           ELSE /\ (r.err \/ r.StatusCode \notin 200..299)
                       => FailuresSoFar < MaxFailures
                /\ inflight' = [obj |-> obj, eventType |-> eventType,
                                payload |-> buildPayload(obj, eventType)]
                /\ resp' = r
                /\ wpc' = "resp"
                /\ acked' = IF ~r.err /\ r.StatusCode \in 200..299
                            THEN acked \cup {<<obj.ID, eventType>>}
                            ELSE acked
                /\ rejected' = IF ~r.err /\ r.StatusCode \notin 200..299
                                  /\ r.StatusCode \notin RetriableCodes
                               THEN rejected \cup {<<obj.ID, r.StatusCode>>}
                               ELSE rejected
    /\ pending' = Tail(pending)
    /\ UNCHANGED <<now, cluster, relist, dbVars, tickReady, eligible, cb, loopVars, server>>
    /\ pass' = NoPass

\* incrementAttempts; dbOK tells whether the statement succeeds
incrementAttempts(l, obj, at, dbOK) ==
    IF dbOK THEN IncrementNotificationAttempts(l, obj.ID, at) ELSE l

\* a variant that retries every status that is not 2xx
handleResponse_RetriesAll(l, obj, eventType, r, at, dbOK) ==
    IF r.err THEN incrementAttempts(l, obj, at, dbOK)
    ELSE IF IsSuccess(r.StatusCode)
    THEN (IF dbOK THEN UpdateNotificationStatus(l, obj.ID, eventType, at) ELSE l)
    ELSE incrementAttempts(l, obj, at, dbOK)

\* The table after handleResponse(obj, eventType, resp, err).
handleResponse(l, obj, eventType, r, at, dbOK) ==
    IF r.err THEN incrementAttempts(l, obj, at, dbOK)
    ELSE IF IsSuccess(r.StatusCode)
    THEN (IF dbOK THEN UpdateNotificationStatus(l, obj.ID, eventType, at) ELSE l)
    ELSE IF isRetriable(r.StatusCode)
    THEN incrementAttempts(l, obj, at, dbOK)
    ELSE (IF dbOK THEN MarkNotificationFailed(l, obj.ID, r.StatusCode) ELSE l)

\* processNotification after client.Do: handleResponse, then the next
\* object of the batch.
HandleResponse(dbOK) ==
    /\ wpc = "resp"
    /\ log' = handleResponse(log, inflight.obj, inflight.eventType, resp, now, dbOK)
    /\ inflight' = None
    /\ resp' = None
    /\ wpc' = IF pending = <<>> THEN "idle" ELSE "batch"
    /\ UNCHANGED <<now, cluster, relist, nextId, tickReady, pending, eligible, cb, ghostVars,
                   loopVars>>
    /\ pass' = NoPass

(***************************************************************************)
(* The cleaner.  Cleanup queries the eligible records and then deletes     *)
(* them one statement at a time; the other goroutines run in between.      *)
(***************************************************************************)
\* Cleanup up to its delete loop: the query of a pass
Cleanup ==
    /\ eligible = <<>>
    /\ eligible' = MapRows(LAMBDA obj : obj.ID,
                           GetCleanupEligible(log, RetentionPeriod, now))
    /\ UNCHANGED <<now, cluster, relist, dbVars, workerVars, cb, ghostVars, loopVars>>
    /\ pass' = NoPass

\* one turn of the delete loop of Cleanup
CleanupDelete ==
    /\ eligible # <<>>
    /\ log' = DeleteRecord(log, Head(eligible))
    /\ eligible' = Tail(eligible)
    /\ UNCHANGED <<now, cluster, relist, nextId, workerVars, cb, ghostVars, loopVars>>
    /\ pass' = NoPass

(***************************************************************************)
(* The system in normal operation: every statement on the log succeeds     *)
(* and the process keeps running.                                          *)
(***************************************************************************)
Init ==
    /\ now = 0
    /\ cluster = [u \in UIDs |-> "absent"]
    /\ relist = {}
    /\ log = <<>>
    /\ nextId = 0
    /\ tickReady = FALSE
    /\ wpc = "idle"
    /\ pending = <<>>
    /\ inflight = None
    /\ resp = None
    /\ eligible = <<>>
    /\ cb = [t \in Threads |-> Idle]
    /\ acked = {}
    /\ rejected = {}
    /\ server = NewServer
    /\ pass = NoPass
    /\ rec = NotStarted
    /\ sd = Running

Observer(uids) ==
    \/ \E uid \in uids, marked \in BOOLEAN : OnAdd(uid, marked)
    \/ \E uid \in uids, marked \in BOOLEAN : OnUpdate(uid, marked)
    \/ \E uid \in uids : OnDelete(uid)

Notifier ==
    \/ Poll
    \/ \E s \in EndpointStatuses : Deliver(Response(s))
    \/ Deliver(NetworkError)
    \/ HandleResponse(TRUE)

Next ==
    \/ Observer(UIDs)
    \/ Notifier
    \/ Tick(MaxNow)

Spec == Init /\ [][Next]_vars

(***************************************************************************)
(* The process is killed and started again.  The log is a file; the        *)
(* notifier's batch, the request in flight and the ticker are memory.  The *)
(* informers of the new process list the cluster and call AddFunc for      *)
(* every object they find.                                                 *)
(***************************************************************************)
\* a variant for a database that is not kept on disk
NewSQLiteDB_Volatile(l) == <<>>

\* the table NewSQLiteDB opens: the rows committed before the kill
NewSQLiteDB(l) == l

Crash ==
    /\ log' = NewSQLiteDB(log)
    /\ tickReady' = FALSE
    /\ wpc' = "idle"
    /\ pending' = <<>>
    /\ inflight' = None
    /\ resp' = None
    /\ eligible' = <<>>
    /\ relist' = {u \in UIDs : cluster[u] \in {"unmarked", "marked"}}
    /\ UNCHANGED <<now, cluster, nextId, cb, ghostVars, loopVars>>
    /\ pass' = NoPass

\* AddFunc for an object of the initial list
Relist(uid) ==
    /\ uid \in relist
    /\ relist' = relist \ {uid}
    /\ log' = handleAdd(log, KubeObject(uid, cluster[uid] = "marked"),
                        DetectionSourceWatch, nextId + 1, now)
    /\ Inserted(log, log') => nextId < MaxInserts
    /\ nextId' = IF Inserted(log, log') THEN nextId + 1 ELSE nextId
    /\ UNCHANGED <<now, cluster, workerVars, eligible, cb, ghostVars, loopVars>>
    /\ pass' = NoPass

CrashUIDs == {"u1"}

NextCrash ==
    \/ Observer(CrashUIDs)
    \/ Notifier
    \/ Tick(MaxNow)
    \/ Crash
    \/ \E uid \in CrashUIDs : Relist(uid)

SpecCrash == Init /\ [][NextCrash]_vars

(***************************************************************************)
(* Normal operation of one resource under fair scheduling: the clock and   *)
(* the ticker keep going, the notifier keeps running, every request is     *)
(* answered.  The endpoint fails at most MaxFailures deliveries of a       *)
(* record, so it answers 2xx in the end.                                   *)
(***************************************************************************)
LiveUIDs == {"u1"}

AnyDeliver ==
    \/ \E s \in EndpointStatuses : Deliver(Response(s))
    \/ Deliver(NetworkError)

NextLive ==
    \/ Observer(LiveUIDs)
    \/ Notifier
    \/ Tick(MaxNow)

LiveSpec ==
    /\ Init
    /\ [][NextLive]_vars
    /\ WF_vars(Tick(MaxNow))
    /\ WF_vars(Poll)
    /\ WF_vars(AnyDeliver)
    /\ WF_vars(HandleResponse(TRUE))

(***************************************************************************)
(* Two resources and the notifier, with weak fairness on the notifier's    *)
(* steps and no fairness on what the endpoint or the database answer: a    *)
(* request may fail at every tick and so may the statement that counts it. *)
(***************************************************************************)
AnyHandle ==
    \/ HandleResponse(TRUE)
    \/ HandleResponse(FALSE)

NextBatch ==
    \/ \E uid \in UIDs : OnAdd(uid, TRUE)
    \/ \E uid \in UIDs : OnDelete(uid)
    \/ Poll
    \/ Deliver(Response(200))
    \/ Deliver(Response(503))
    \/ AnyHandle
    \/ Tick(MaxNow)

LiveBatch ==
    /\ Init
    /\ [][NextBatch]_vars
    /\ WF_vars(Tick(MaxNow))
    /\ WF_vars(Poll)
    /\ WF_vars(Deliver(Response(200)) \/ Deliver(Response(503)))
    /\ WF_vars(AnyHandle)

(***************************************************************************)
(* The same with an endpoint that answers every request with a 2xx.        *)
(***************************************************************************)
DeliverOK ==
    \/ Deliver(Response(200))
    \/ Deliver(Response(299))

NextOK ==
    \/ Observer(LiveUIDs)
    \/ Poll
    \/ Deliver(Response(200))
    \/ Deliver(Response(299))
    \/ HandleResponse(TRUE)
    \/ Tick(MaxNow)

SpecOK ==
    /\ Init
    /\ [][NextOK]_vars
    /\ WF_vars(Tick(MaxNow))
    /\ WF_vars(Poll)
    /\ WF_vars(DeliverOK)
    /\ WF_vars(HandleResponse(TRUE))

(***************************************************************************)
(* One resource, its notifications and the cleaner, over a time longer     *)
(* than the retention period.  The endpoint answers 200 or 400.            *)
(***************************************************************************)
CleanHorizon == 5

CleanUIDs == {"u1"}

NextClean ==
    \/ Observer(CleanUIDs)
    \/ Poll
    \/ Deliver(Response(200))
    \/ Deliver(Response(400))
    \/ HandleResponse(TRUE)
    \/ Tick(CleanHorizon)
    \/ Cleanup
    \/ CleanupDelete

SpecClean == Init /\ [][NextClean]_vars

(***************************************************************************)
(* The reconciler.  A pass goes through the configured kinds; for each it  *)
(* lists the marked objects of the cluster, reads the active records of    *)
(* the kind and repairs the difference.  Events the watcher missed (the    *)
(* callback was not delivered, or its statement on the log failed) change  *)
(* the cluster and leave the log as it was.                                *)
(***************************************************************************)
\* a variant that lists every object of the kind, marked or not
clusterUIDs_AllLive(kind) ==
    {uid \in UIDs : KindOf(uid) = kind /\ cluster[uid] \in {"marked", "unmarked"}}

\* the uids of listClusterObjects for a kind
clusterUIDs(kind) == {uid \in UIDs : KindOf(uid) = kind /\ cluster[uid] = "marked"}

\* dbUIDMap: the active record of each uid, the last one if there are several
dbUIDMap(dbObjects) ==
    [uid \in {dbObjects[i].ResourceUID : i \in 1..Len(dbObjects)} |->
        LET last == CHOOSE i \in 1..Len(dbObjects) :
                        /\ dbObjects[i].ResourceUID = uid
                        /\ \A j \in (i + 1)..Len(dbObjects) :
                               dbObjects[j].ResourceUID # uid
        IN  dbObjects[last]]

\* a variant that inserts the listed object as it is
RECURSIVE insertMissed_AsListed(_, _, _, _)
insertMissed_AsListed(st, uids, values, at) ==
    IF uids = <<>> THEN st
    ELSE insertMissed_AsListed(
             [log |-> InsertManagedObject(st.log,
                          ManagedObject(st.id + 1, Head(uids), values[Head(uids)],
                                        ClusterStateExists, DetectionSourceWatch, at)),
              id |-> st.id + 1],
             Tail(uids), values, at)

\* the loop over the missed creations; st is the table and the last id
RECURSIVE insertMissed(_, _, _, _)
insertMissed(st, uids, values, at) ==
    IF uids = <<>> THEN st
    ELSE LET clusterObj == ManagedObject(st.id + 1, Head(uids), values[Head(uids)],
                                         "", "", at)
         IN  insertMissed(
                 [log |-> InsertManagedObject(st.log,
                              [clusterObj EXCEPT
                                  !.DetectionSource = DetectionSourceReconciliation,
                                  !.ClusterState = ClusterStateExists]),
                  id |-> st.id + 1],
                 Tail(uids), values, at)

\* a variant that keeps the time of the deletion open
RECURSIVE markMissed_NoTime(_, _, _)
markMissed_NoTime(l, uids, at) ==
    IF uids = <<>> THEN l
    ELSE markMissed_NoTime(UpdateClusterState(l, Head(uids), ClusterStateDeleted, NULL),
                           Tail(uids), at)

\* the loop over the missed deletions
RECURSIVE markMissed(_, _, _)
markMissed(l, uids, at) ==
    IF uids = <<>> THEN l
    ELSE markMissed(UpdateClusterState(l, Head(uids), ClusterStateDeleted, at),
                    Tail(uids), at)

\* a variant that also queues the record for a new created notification
RECURSIVE touchPresent_Renotifies(_, _, _, _)
touchPresent_Renotifies(l, uids, map, reconciledAt) ==
    IF uids = <<>> THEN l
    ELSE touchPresent_Renotifies(
             MapRows(LAMBDA r : IF r.ID = map[Head(uids)].ID
                                THEN [r EXCEPT !.NotifiedCreated = FALSE,
                                               !.LastReconciled =
                                                   FormatRFC3339(reconciledAt)]
                                ELSE r, l),
             Tail(uids), map, reconciledAt)

\* the loop over the records that are still in the cluster
RECURSIVE touchPresent(_, _, _, _)
touchPresent(l, uids, map, reconciledAt) ==
    IF uids = <<>> THEN l
    ELSE touchPresent(UpdateLastReconciled(l, map[Head(uids)].ID, reconciledAt),
                      Tail(uids), map, reconciledAt)

\* reconcileResource after both reads: listed is what listClusterObjects
\* returned, dbObjects what GetAllActiveObjects returned
repair(st, kind, listed, dbObjects, order, values, at) ==
    LET map == dbUIDMap(dbObjects)
        missedCreations ==
            FilterRows(LAMBDA uid : uid \in listed /\ uid \notin DOMAIN map, order)
        missedDeletions ==
            FilterRows(LAMBDA uid : uid \in DOMAIN map /\ uid \notin listed, order)
        stillPresent ==
            FilterRows(LAMBDA uid : uid \in DOMAIN map /\ uid \in listed, order)
        ins == insertMissed([log |-> st.log, id |-> st.id],
                            missedCreations, values, at)
    IN  [log |-> touchPresent(markMissed(ins.log, missedDeletions, at),
                              stillPresent, map, at),
         id |-> ins.id,
         ran |-> st.ran,
         created |-> st.created \cup Range(missedCreations),
         deleted |-> st.deleted \cup Range(missedDeletions),
         present |-> st.present \cup Range(stillPresent),
         differs |-> st.differs \cup
             {uid \in Range(stillPresent) : map[uid].AnnotationValue # values[uid]},
         listed |-> st.listed \cup {kind},
         failed |-> st.failed]

\* reconcileResource for one kind; order is the order the maps are ranged in,
\* values the marker values of the listing.  st carries the table, the last
\* id and what the pass did so far.
reconcileResource(st, kind, outcome, order, values, at) ==
    IF outcome = "listError" THEN [st EXCEPT !.failed = @ \cup {kind}]
    ELSE IF outcome = "queryError"
    THEN [st EXCEPT !.listed = @ \cup {kind}, !.failed = @ \cup {kind}]
    ELSE repair(st, kind, clusterUIDs(kind), GetAllActiveObjects(st.log, kind),
                order, values, at)

\* a variant that gives the pass up at the first kind that fails
RECURSIVE reconcileKinds_StopsAtError(_, _, _, _, _, _)
reconcileKinds_StopsAtError(st, kinds, outcome, order, values, at) ==
    IF kinds = <<>> THEN st
    ELSE IF outcome[Head(kinds)] # "ok"
         THEN reconcileResource(st, Head(kinds), outcome[Head(kinds)], order, values, at)
         ELSE reconcileKinds_StopsAtError(
                  reconcileResource(st, Head(kinds), outcome[Head(kinds)], order,
                                    values, at),
                  Tail(kinds), outcome, order, values, at)

\* the loop of Reconcile over cfg.Resources
RECURSIVE reconcileKinds(_, _, _, _, _, _)
reconcileKinds(st, kinds, outcome, order, values, at) ==
    IF kinds = <<>> THEN st
    ELSE reconcileKinds(
             reconcileResource(st, Head(kinds), outcome[Head(kinds)], order, values, at),
             Tail(kinds), outcome, order, values, at)

\* the result of a pass from the present state
PassResult(outcome, order, values) ==
    reconcileKinds([NoPass EXCEPT !.ran = TRUE] @@ [log |-> log, id |-> nextId],
                   Kinds, outcome, order, values, now)

\* the marker values a listing of the cluster can come with
ListedValues ==
    {values \in [UIDs -> MarkerValues] :
        \A uid \in UIDs : cluster[uid] # "marked" => values[uid] = MarkerValue}

\* Reconcile: one pass
Reconcile(outcome, order, values) ==
    \E r \in {PassResult(outcome, order, values)} :
        /\ r.id <= MaxInserts
        /\ log' = r.log
        /\ nextId' = r.id
        /\ pass' = [f \in DOMAIN NoPass |-> r[f]]
        /\ UNCHANGED <<now, cluster, relist, workerVars, eligible, cb, ghostVars, loopVars>>

\* an Add event the log does not get
MissAdd(uid, marked) ==
    /\ cluster[uid] = "absent"
    /\ cluster' = [cluster EXCEPT ![uid] = IF marked THEN "marked" ELSE "unmarked"]
    /\ UNCHANGED <<now, relist, dbVars, workerVars, eligible, cb, ghostVars, loopVars>>
    /\ pass' = NoPass

\* an Update event the log does not get
MissUpdate(uid, marked) ==
    /\ cluster[uid] \in {"unmarked", "marked"}
    /\ cluster' = [cluster EXCEPT ![uid] = IF marked THEN "marked" ELSE "unmarked"]
    /\ UNCHANGED <<now, relist, dbVars, workerVars, eligible, cb, ghostVars, loopVars>>
    /\ pass' = NoPass

\* a Delete event the log does not get
MissDelete(uid) ==
    /\ cluster[uid] \in {"unmarked", "marked"}
    /\ cluster' = [cluster EXCEPT ![uid] = "gone"]
    /\ UNCHANGED <<now, relist, dbVars, workerVars, eligible, cb, ghostVars, loopVars>>
    /\ pass' = NoPass

Missed(uids) ==
    \/ \E uid \in uids, marked \in BOOLEAN : MissAdd(uid, marked)
    \/ \E uid \in uids, marked \in BOOLEAN : MissUpdate(uid, marked)
    \/ \E uid \in uids : MissDelete(uid)

\* the order the maps of a pass are ranged in: Go leaves it open, and with
\* one resource of each kind every order gives the same pass
RangeOrder == <<"u1", "u2">>

\* the passes in which the kinds outside failing are reconciled without error
Reconciler(failing) ==
    \E outcome \in [Range(Kinds) -> Outcomes], values \in ListedValues :
        /\ \A kind \in Range(Kinds) \ failing : outcome[kind] = "ok"
        /\ Reconcile(outcome, RangeOrder, values)

\* One resource with the watcher and the reconciler.  The program starts
\* with an empty log, or with the log of an earlier run: the resource was
\* added at tick 0 and its created notification was answered at tick 1.
ReconUIDs == {"u1"}
\* the clock of this specification runs past the first full second
ReconHorizon == 4

NotifiedLog ==
    UpdateNotificationStatus(
        handleAdd(<<>>, KubeObject("u1", TRUE), DetectionSourceWatch, 1, 0),
        1, "created", 1)

InitRecon ==
    \/ Init
    \/ /\ now = 1
       /\ cluster = [u \in UIDs |-> IF u = "u1" THEN "marked" ELSE "absent"]
       /\ relist = {}
       /\ log = NotifiedLog
       /\ nextId = 1
       /\ tickReady = FALSE
       /\ wpc = "idle"
       /\ pending = <<>>
       /\ inflight = None
       /\ resp = None
       /\ eligible = <<>>
       /\ cb = [t \in Threads |-> Idle]
       /\ acked = {<<1, "created">>}
       /\ rejected = {}
       /\ server = NewServer
       /\ pass = NoPass
       /\ rec = NotStarted
       /\ sd = Running

NextRecon ==
    \/ Observer(ReconUIDs)
    \/ Missed(ReconUIDs)
    \/ Reconciler({KindOf(uid) : uid \in ReconUIDs})
    \/ Tick(ReconHorizon)

SpecRecon == InitRecon /\ [][NextRecon]_vars

\* a resource of each configured kind, with a watcher that gets no event
NextKinds ==
    \/ Missed(UIDs)
    \/ Reconciler(Range(Kinds))

SpecKinds == Init /\ [][NextKinds]_vars

(***************************************************************************)
(* The reconciler's loop, a call at a time.  Start makes a pass at once if *)
(* on_startup is set and one at every tick of its ticker; a pass goes      *)
(* through the kinds, and the list call of a kind returns, with the        *)
(* objects or with an error, or does not return.                           *)
(***************************************************************************)
PassHorizon == 4

\* Start up to its loop
ReconcilerStart(onStartup) ==
    /\ rec.pc = "start"
    /\ rec' = IF onStartup
              THEN [pc |-> "pass", since |-> now, kinds |-> Kinds]
              ELSE [pc |-> "wait", since |-> NULL, kinds |-> <<>>]
    /\ pass' = NoPass
    /\ UNCHANGED <<now, cluster, relist, dbVars, workerVars, eligible, cb, ghostVars, sd>>

\* case <-ticker.C: Reconcile is called
ReconcilerTick ==
    /\ rec.pc = "wait"
    /\ rec' = [pc |-> "pass", since |-> now, kinds |-> Kinds]
    /\ pass' = NoPass
    /\ UNCHANGED <<now, cluster, relist, dbVars, workerVars, eligible, cb, ghostVars, sd>>

\* reconcileResource for the next kind: the list call returns
PassKind(outcome, values) ==
    /\ rec.pc = "pass"
    /\ rec.kinds # <<>>
    /\ \E r \in {reconcileResource([NoPass EXCEPT !.ran = TRUE] @@
                                      [log |-> log, id |-> nextId],
                                  Head(rec.kinds), outcome, RangeOrder, values, now)} :
           /\ r.id <= MaxInserts
           /\ log' = r.log
           /\ nextId' = r.id
    /\ rec' = [rec EXCEPT !.kinds = Tail(@)]
    /\ pass' = NoPass
    /\ UNCHANGED <<now, cluster, relist, workerVars, eligible, cb, ghostVars, sd>>

PassKinds ==
    \E outcome \in Outcomes, values \in ListedValues : PassKind(outcome, values)

\* the list call of the next kind blocks
ListBlocks ==
    /\ rec.pc = "pass"
    /\ rec.kinds # <<>>
    /\ rec' = [rec EXCEPT !.pc = "list"]
    /\ pass' = NoPass
    /\ UNCHANGED <<now, cluster, relist, dbVars, workerVars, eligible, cb, ghostVars, sd>>

\* Reconcile returns
PassEnd ==
    /\ rec.pc = "pass"
    /\ rec.kinds = <<>>
    /\ rec' = [pc |-> "wait", since |-> NULL, kinds |-> <<>>]
    /\ pass' = NoPass
    /\ UNCHANGED <<now, cluster, relist, dbVars, workerVars, eligible, cb, ghostVars, sd>>

NextPass ==
    \/ Missed(ReconUIDs)
    \/ \E onStartup \in BOOLEAN : ReconcilerStart(onStartup)
    \/ ReconcilerTick
    \/ PassKinds
    \/ ListBlocks
    \/ PassEnd
    \/ Tick(PassHorizon)

SpecPass == Init /\ [][NextPass]_vars

(***************************************************************************)
(* reconcileResource, a read at a time.  The list of the cluster and the   *)
(* query of the log are two calls; the watcher's callbacks run on their    *)
(* own goroutine and may write to the log between them.                    *)
(***************************************************************************)
\* listClusterObjects returns: with an error the kind is given up, else
\* the pass holds the uids and the values it was given
ListReturns(outcome, values) ==
    /\ rec.pc = "pass"
    /\ rec.kinds # <<>>
    /\ rec' = IF outcome = "listError"
              THEN [rec EXCEPT !.kinds = Tail(@)]
              ELSE [pc |-> "query", since |-> rec.since, kinds |-> rec.kinds,
                    clusterUIDs |-> clusterUIDs(Head(rec.kinds)),
                    values |-> values]
    /\ pass' = NoPass
    /\ UNCHANGED <<now, cluster, relist, dbVars, workerVars, eligible, cb, ghostVars, sd>>

\* GetAllActiveObjects returns, and the three loops run on what was read
QueryReturns(outcome) ==
    /\ rec.pc = "query"
    /\ \E r \in {IF outcome = "queryError"
                 THEN [log |-> log, id |-> nextId]
                 ELSE repair([NoPass EXCEPT !.ran = TRUE] @@
                                 [log |-> log, id |-> nextId],
                             Head(rec.kinds), rec.clusterUIDs,
                             GetAllActiveObjects(log, Head(rec.kinds)),
                             RangeOrder, rec.values, now)} :
           /\ r.id <= MaxInserts
           /\ log' = r.log
           /\ nextId' = r.id
    /\ rec' = [pc |-> "pass", since |-> rec.since, kinds |-> Tail(rec.kinds)]
    /\ pass' = NoPass
    /\ UNCHANGED <<now, cluster, relist, workerVars, eligible, cb, ghostVars, sd>>

NextList ==
    \/ Observer(ReconUIDs)
    \/ \E onStartup \in BOOLEAN : ReconcilerStart(onStartup)
    \/ ReconcilerTick
    \/ \E outcome \in {"ok", "listError"}, values \in ListedValues :
           ListReturns(outcome, values)
    \/ \E outcome \in {"ok", "queryError"} : QueryReturns(outcome)
    \/ PassEnd
    \/ Tick(MaxNow)

SpecList == Init /\ [][NextList]_vars

(***************************************************************************)
(* listPods and listDynamic, a namespace at a time: the list call of each  *)
(* configured namespace returns the objects of the kind in it or fails,    *)
(* and the first failure ends the listing with the error.                  *)
(***************************************************************************)
\* resources[].namespaces
Namespaces == <<"ns-a", "ns-b">>

\* the namespace a resource lives in
NamespaceOf(uid) == IF uid = "u1" THEN Namespaces[1] ELSE Namespaces[2]

\* a variant that goes on with the next namespace when a list call fails
RECURSIVE listNamespaces_SkipsFailed(_, _, _, _)
listNamespaces_SkipsFailed(kind, namespaces, fails, uidSet) ==
    IF namespaces = <<>> THEN [err |-> FALSE, uidSet |-> uidSet]
    ELSE listNamespaces_SkipsFailed(
             kind, Tail(namespaces), fails,
             IF Head(namespaces) \in fails THEN uidSet
             ELSE uidSet \cup {uid \in clusterUIDs(kind) :
                                  NamespaceOf(uid) = Head(namespaces)})

\* the loop over the namespaces; fails are the namespaces whose list call
\* returns an error
RECURSIVE listNamespaces(_, _, _, _)
listNamespaces(kind, namespaces, fails, uidSet) ==
    IF namespaces = <<>> THEN [err |-> FALSE, uidSet |-> uidSet]
    ELSE IF Head(namespaces) \in fails THEN [err |-> TRUE, uidSet |-> {}]
    ELSE listNamespaces(kind, Tail(namespaces), fails,
                        uidSet \cup {uid \in clusterUIDs(kind) :
                                        NamespaceOf(uid) = Head(namespaces)})

\* reconcileResource for the next kind of the pass, with the list calls of
\* the namespaces in fails failing
PassKindIn(fails, values) ==
    /\ rec.pc = "pass"
    /\ rec.kinds # <<>>
    /\ \E l \in {listNamespaces(Head(rec.kinds), Namespaces, fails, {})} :
           \E r \in {IF l.err THEN [log |-> log, id |-> nextId]
                     ELSE repair([NoPass EXCEPT !.ran = TRUE] @@
                                     [log |-> log, id |-> nextId],
                                 Head(rec.kinds), l.uidSet,
                                 GetAllActiveObjects(log, Head(rec.kinds)),
                                 RangeOrder, values, now)} :
               /\ r.id <= MaxInserts
               /\ log' = r.log
               /\ nextId' = r.id
    /\ rec' = [pc |-> "pass", since |-> rec.since, kinds |-> Tail(rec.kinds),
               kind |-> Head(rec.kinds), fails |-> fails]
    /\ pass' = NoPass
    /\ UNCHANGED <<now, cluster, relist, workerVars, eligible, cb, ghostVars, sd>>

NextNamespaces ==
    \/ Missed(UIDs)
    \/ \E onStartup \in BOOLEAN : ReconcilerStart(onStartup)
    \/ ReconcilerTick
    \/ \E fails \in SUBSET Range(Namespaces), values \in ListedValues :
           PassKindIn(fails, values)
    \/ PassEnd

SpecNamespaces == Init /\ [][NextNamespaces]_vars

(***************************************************************************)
(* Shutdown.  main starts the loops in an errgroup under one token, waits  *)
(* for a signal or for the token, then stops the watcher, cancels the      *)
(* token, shuts the metrics server down and waits for the group.  Each     *)
(* loop selects between the token and its ticker; when both are ready the  *)
(* select takes either.  The list calls and the HTTP request carry the     *)
(* token; the statements on the log do not.                                *)
(***************************************************************************)
StopHorizon == 11

\* the clock when the shutdown model starts: the process has run a while
StopStart == 2 * TicksPerSecond

\* the timeout of shutdownCtx
ShutdownTimeout == 2

\* worker.batch_size of the shutdown model
StopBatchSize == 2

\* a variant of poll that does not look at the token between two records
pollSeesDone_Never(ctx) == FALSE

\* poll's select before each record: case <-ctx.Done() is taken when ready
pollSeesDone(ctx) == ctx

\* the outcomes of a list call: with the token cancelled the client
\* returns the context's error
listOutcomes(ctx) == IF ctx THEN {"listError"} ELSE Outcomes

\* the ghost sd.late: the units begun while the token was cancelled
Late(unit) == IF sd.ctx THEN sd.late \cup {unit} ELSE sd.late

StopUnchanged ==
    /\ UNCHANGED <<now, cluster, relist, tickReady, wpc, resp, cb, ghostVars>>
    /\ pass' = NoPass

\* the tables the shutdown model starts from
StopTable(uids, notified, state) ==
    LET inserted == [i \in 1..Len(uids) |->
                        RowOf([extractManagedObject(KubeObject(uids[i], TRUE), i, 0)
                                  EXCEPT !.ClusterState = ClusterStateExists,
                                         !.DetectionSource = DetectionSourceWatch])]
        delivered == IF notified
                     THEN MapRows(LAMBDA r : [r EXCEPT !.NotifiedCreated = TRUE,
                                                       !.CreatedNotificationSentAt = 0,
                                                       !.NotifiedDeleted = TRUE,
                                                       !.DeletedNotificationSentAt = 0],
                                  inserted)
                     ELSE inserted
    IN  IF state = ClusterStateDeleted
        THEN MapRows(LAMBDA r : [r EXCEPT !.ClusterState = ClusterStateDeleted,
                                          !.DeletedAt = 0], delivered)
        ELSE delivered

InitStop ==
    /\ now = StopStart
    /\ \/ /\ log = StopTable(<<"u1", "u2">>, FALSE, ClusterStateExists)
          /\ cluster = [u1 |-> "marked", u2 |-> "gone"]
       \/ /\ log = StopTable(<<"u1", "u2">>, TRUE, ClusterStateDeleted)
          /\ cluster = [u1 |-> "gone", u2 |-> "gone"]
       \/ /\ log = StopTable(<<"u1">>, FALSE, ClusterStateExists)
          /\ cluster = [u1 |-> "marked", u2 |-> "absent"]
    /\ nextId = Len(log)
    /\ relist = {}
    /\ tickReady = FALSE
    /\ wpc = "idle"
    /\ pending = <<>>
    /\ inflight = None
    /\ resp = None
    /\ eligible = <<>>
    /\ cb = [t \in Threads |-> Idle]
    /\ acked = {}
    /\ rejected = {}
    /\ server = NewServer
    /\ pass = NoPass
    /\ rec = [pc |-> "wait", since |-> NULL, kinds |-> <<>>]
    /\ sd = Running

StopUIDs == {"u2"}

\* the informers deliver callbacks until their stop channels are closed
Informers ==
    /\ sd.watching
    /\ Observer(StopUIDs)

\* a goroutine of the group returns an error: the group cancels the token
GroupError ==
    /\ sd.main = "ready"
    /\ ~sd.ctx
    /\ sd' = [sd EXCEPT !.ctx = TRUE]
    /\ UNCHANGED <<dbVars, pending, inflight, eligible, rec>>
    /\ StopUnchanged

\* main's select returns: a signal has arrived or the token is cancelled
Signal ==
    /\ sd.main = "ready"
    /\ sd' = [sd EXCEPT !.main = "stopping"]
    /\ UNCHANGED <<dbVars, pending, inflight, eligible, rec>>
    /\ StopUnchanged

\* w.Stop()
WatcherStop ==
    /\ sd.main = "stopping"
    /\ sd' = [sd EXCEPT !.main = "stopped", !.watching = FALSE]
    /\ UNCHANGED <<dbVars, pending, inflight, eligible, rec>>
    /\ StopUnchanged

\* cancel()
Cancel ==
    /\ sd.main = "stopped"
    /\ sd' = [sd EXCEPT !.main = "cancelled", !.ctx = TRUE, !.since = now]
    /\ UNCHANGED <<dbVars, pending, inflight, eligible, rec>>
    /\ StopUnchanged

\* metricsServer.Shutdown(shutdownCtx) returns, at the latest when
\* shutdownCtx expires
MetricsShutdown ==
    /\ sd.main = "cancelled"
    /\ sd' = [sd EXCEPT !.main = "wait"]
    /\ UNCHANGED <<dbVars, pending, inflight, eligible, rec>>
    /\ StopUnchanged

LoopsExited == sd.n = "exited" /\ sd.c = "exited" /\ rec.pc = "exited"

\* g.Wait() returns
GroupWait ==
    /\ sd.main = "wait"
    /\ LoopsExited
    /\ sd' = [sd EXCEPT !.main = "done"]
    /\ UNCHANGED <<dbVars, pending, inflight, eligible, rec>>
    /\ StopUnchanged

\* Notifier.Start: case <-ctx.Done()
NotifierStop ==
    /\ sd.n = "select"
    /\ sd.ctx
    /\ sd' = [sd EXCEPT !.n = "exited"]
    /\ UNCHANGED <<dbVars, pending, inflight, eligible, rec>>
    /\ StopUnchanged

\* Notifier.Start: case <-ticker.C, poll fetches the batch
NotifierPoll ==
    /\ sd.n = "select"
    /\ pending' = MapRows(Fetched, GetPendingNotifications(log, StopBatchSize))
    /\ sd' = [sd EXCEPT !.n = "batch", !.late = Late("poll")]
    /\ UNCHANGED <<dbVars, inflight, eligible, rec>>
    /\ StopUnchanged

\* poll: the head of its loop over the batch
NotifierNext ==
    /\ sd.n = "batch"
    /\ IF pending = <<>> \/ pollSeesDone(sd.ctx)
       THEN /\ pending' = <<>>
            /\ sd' = [sd EXCEPT !.n = "select"]
            /\ UNCHANGED inflight
       ELSE \E eventType \in {EventTypeOf(Head(pending))} :
               IF eventType = ""
               THEN /\ pending' = Tail(pending)
                    /\ UNCHANGED <<inflight, sd>>
               ELSE /\ inflight' = [obj |-> Head(pending), eventType |-> eventType,
                                    payload |-> buildPayload(Head(pending), eventType)]
                    /\ pending' = Tail(pending)
                    /\ sd' = [sd EXCEPT !.n = "send", !.late = Late("record")]
    /\ UNCHANGED <<dbVars, eligible, rec>>
    /\ StopUnchanged

\* processNotification: client.Do returns and handleResponse runs; once
\* MaxFailures failed deliveries are on record the request succeeds
NotifierAnswer(r) ==
    /\ sd.n = "send"
    /\ r.err => FailuresSoFar < MaxFailures
    /\ log' = handleResponse(log, inflight.obj, inflight.eventType, r, now, TRUE)
    /\ inflight' = None
    /\ sd' = [sd EXCEPT !.n = "batch"]
    /\ UNCHANGED <<nextId, pending, eligible, rec>>
    /\ StopUnchanged

\* Reconciler.Start: case <-ctx.Done()
ReconcilerStop ==
    /\ rec.pc = "wait"
    /\ sd.ctx
    /\ rec' = [rec EXCEPT !.pc = "exited"]
    /\ UNCHANGED <<dbVars, pending, inflight, eligible, sd>>
    /\ StopUnchanged

\* Reconciler.Start: case <-ticker.C, Reconcile is called
ReconcilerPass ==
    /\ rec.pc = "wait"
    /\ rec' = [pc |-> "pass", since |-> NULL, kinds |-> Kinds]
    /\ sd' = [sd EXCEPT !.late = Late("pass")]
    /\ UNCHANGED <<dbVars, pending, inflight, eligible>>
    /\ StopUnchanged

\* reconcileResource for the next kind, its list call made with the token
ReconcilerKind(outcome, values) ==
    /\ rec.pc = "pass"
    /\ rec.kinds # <<>>
    /\ \E r \in {reconcileResource([NoPass EXCEPT !.ran = TRUE] @@
                                      [log |-> log, id |-> nextId],
                                  Head(rec.kinds), outcome, RangeOrder, values, now)} :
           /\ r.id <= MaxInserts
           /\ log' = r.log
           /\ nextId' = r.id
           /\ sd' = [sd EXCEPT !.late = IF r.log # log THEN Late("repair") ELSE @]
    /\ rec' = [rec EXCEPT !.kinds = Tail(@)]
    /\ UNCHANGED <<pending, inflight, eligible>>
    /\ StopUnchanged

ReconcilerKinds ==
    \E outcome \in listOutcomes(sd.ctx), values \in ListedValues :
        ReconcilerKind(outcome, values)

\* Cleaner.Start: case <-ctx.Done()
CleanerStop ==
    /\ sd.c = "select"
    /\ sd.ctx
    /\ sd' = [sd EXCEPT !.c = "exited"]
    /\ UNCHANGED <<dbVars, pending, inflight, eligible, rec>>
    /\ StopUnchanged

\* Cleaner.Start: case <-ticker.C, Cleanup queries the eligible records
CleanerCleanup ==
    /\ sd.c = "select"
    /\ eligible' = MapRows(LAMBDA obj : obj.ID,
                           GetCleanupEligible(log, RetentionPeriod, now))
    /\ sd' = [sd EXCEPT !.c = IF eligible' = <<>> THEN "select" ELSE "delete",
                        !.late = Late("cleanup")]
    /\ UNCHANGED <<dbVars, pending, inflight, rec>>
    /\ StopUnchanged

\* Cleanup: the head of its delete loop, and the vacuum after it
CleanerDelete ==
    /\ sd.c = "delete"
    /\ IF eligible = <<>> \/ sd.ctx
       THEN /\ eligible' = <<>>
            /\ sd' = [sd EXCEPT !.c = "select"]
            /\ UNCHANGED log
       ELSE /\ log' = DeleteRecord(log, Head(eligible))
            /\ eligible' = Tail(eligible)
            /\ sd' = [sd EXCEPT !.late = Late("delete")]
    /\ UNCHANGED <<nextId, pending, inflight, rec>>
    /\ StopUnchanged

Loops ==
    \/ NotifierStop
    \/ NotifierPoll
    \/ NotifierNext
    \/ NotifierAnswer(Response(200))
    \/ NotifierAnswer(NetworkError)
    \/ ReconcilerStop
    \/ ReconcilerPass
    \/ ReconcilerKinds
    \/ PassEnd
    \/ CleanerStop
    \/ CleanerCleanup
    \/ CleanerDelete

\* main up to cancel() and the loops
NextStop ==
    \/ Signal
    \/ WatcherStop
    \/ Cancel
    \/ Loops

SpecStop == InitStop /\ [][NextStop]_vars

\* a select whose token case stays ready takes it in the end; a loop that
\* is in a unit of work goes on with it
LiveStop ==
    /\ SpecStop
    /\ SF_vars(NotifierStop)
    /\ SF_vars(ReconcilerStop)
    /\ SF_vars(CleanerStop)
    /\ WF_vars(NotifierNext)
    /\ WF_vars(NotifierAnswer(Response(200)) \/ NotifierAnswer(NetworkError))
    /\ WF_vars(ReconcilerKinds)
    /\ WF_vars(PassEnd)
    /\ WF_vars(CleanerDelete)

\* the four components together while the process runs: the informers and
\* the loops of the notifier, the reconciler and the cleaner
NextAll ==
    \/ Informers
    \/ NotifierPoll
    \/ NotifierNext
    \/ NotifierAnswer(Response(200))
    \/ NotifierAnswer(NetworkError)
    \/ NotifierAnswer(Response(400))
    \/ ReconcilerPass
    \/ ReconcilerKinds
    \/ PassEnd
    \/ CleanerCleanup
    \/ CleanerDelete

SpecAll == InitStop /\ [][NextAll]_vars

\* main's shutdown sequence with the informers, the notifier and the clock;
\* the reconciler and the cleaner wait for their tickers
NextShutdown ==
    \/ Informers
    \/ GroupError
    \/ Signal
    \/ WatcherStop
    \/ Cancel
    \/ MetricsShutdown
    \/ GroupWait
    \/ NotifierStop
    \/ NotifierPoll
    \/ NotifierNext
    \/ NotifierAnswer(Response(200))
    \/ NotifierAnswer(NetworkError)
    \/ ReconcilerStop
    \/ CleanerStop
    \/ Tick(StopHorizon)

SpecShutdown == InitStop /\ [][NextShutdown]_vars

(***************************************************************************)
(* Callbacks that run at the same time.  An event changes the cluster and  *)
(* hands its callback to a goroutine; the goroutine runs the callback one  *)
(* statement on the log at a time, and the other goroutine's statements    *)
(* come in between.                                                        *)
(***************************************************************************)
\* AddFunc is called
StartAdd(t, uid, marked) ==
    /\ cb[t] = Idle
    /\ cluster[uid] = "absent"
    /\ cluster' = [cluster EXCEPT ![uid] = IF marked THEN "marked" ELSE "unmarked"]
    /\ cb' = [cb EXCEPT ![t] = [pc |-> "handleAdd",
                                oldObj |-> KubeObject(uid, marked),
                                newObj |-> KubeObject(uid, marked)]]
    /\ UNCHANGED <<now, relist, dbVars, workerVars, eligible, ghostVars, loopVars>>
    /\ pass' = NoPass

\* UpdateFunc is called
StartUpdate(t, uid, marked) ==
    /\ cb[t] = Idle
    /\ cluster[uid] \in {"unmarked", "marked"}
    /\ cluster' = [cluster EXCEPT ![uid] = IF marked THEN "marked" ELSE "unmarked"]
    /\ cb' = [cb EXCEPT ![t] = [pc |-> "handleUpdate",
                                oldObj |-> KubeObject(uid, cluster[uid] = "marked"),
                                newObj |-> KubeObject(uid, marked)]]
    /\ UNCHANGED <<now, relist, dbVars, workerVars, eligible, ghostVars, loopVars>>
    /\ pass' = NoPass

\* DeleteFunc is called
StartDelete(t, uid) ==
    /\ cb[t] = Idle
    /\ cluster[uid] \in {"unmarked", "marked"}
    /\ cluster' = [cluster EXCEPT ![uid] = "gone"]
    /\ cb' = [cb EXCEPT ![t] = [pc |-> "handleDelete",
                                oldObj |-> KubeObject(uid, cluster[uid] = "marked"),
                                newObj |-> KubeObject(uid, cluster[uid] = "marked")]]
    /\ UNCHANGED <<now, relist, dbVars, workerVars, eligible, ghostVars, loopVars>>
    /\ pass' = NoPass

\* handleAdd and handleUpdate make at most one statement
RunStatement(t) ==
    /\ cb[t].pc \in {"handleAdd", "handleUpdate"}
    /\ log' = IF cb[t].pc = "handleAdd"
              THEN handleAdd(log, cb[t].newObj, DetectionSourceWatch, nextId + 1, now)
              ELSE handleUpdate(log, cb[t].oldObj, cb[t].newObj, nextId + 1, now)
    /\ Inserted(log, log') => nextId < MaxInserts
    /\ nextId' = IF Inserted(log, log') THEN nextId + 1 ELSE nextId
    /\ cb' = [cb EXCEPT ![t] = Idle]
    /\ UNCHANGED <<now, cluster, relist, workerVars, eligible, ghostVars, loopVars>>
    /\ pass' = NoPass

\* handleDelete up to its check of GetManagedObjectByUID
RunLookup(t) ==
    /\ cb[t].pc = "handleDelete"
    /\ cb' = [cb EXCEPT ![t] =
                 IF GetManagedObjectByUID(log, cb[t].oldObj.UID) = None
                 THEN Idle
                 ELSE [cb[t] EXCEPT !.pc = "UpdateClusterState"]]
    /\ UNCHANGED <<now, cluster, relist, dbVars, workerVars, eligible, ghostVars, loopVars>>
    /\ pass' = NoPass

\* handleDelete from there: UpdateClusterState
RunSetDeleted(t) ==
    /\ cb[t].pc = "UpdateClusterState"
    /\ log' = UpdateClusterState(log, cb[t].oldObj.UID, ClusterStateDeleted, now)
    /\ cb' = [cb EXCEPT ![t] = Idle]
    /\ UNCHANGED <<now, cluster, relist, nextId, workerVars, eligible, ghostVars, loopVars>>
    /\ pass' = NoPass

NextRace ==
    \/ \E t \in Threads, uid \in UIDs, marked \in BOOLEAN : StartAdd(t, uid, marked)
    \/ \E t \in Threads, uid \in UIDs, marked \in BOOLEAN : StartUpdate(t, uid, marked)
    \/ \E t \in Threads, uid \in UIDs : StartDelete(t, uid)
    \/ \E t \in Threads : RunStatement(t)
    \/ \E t \in Threads : RunLookup(t)
    \/ \E t \in Threads : RunSetDeleted(t)
    \/ Tick(MaxNow)

SpecRace == Init /\ [][NextRace]_vars

(***************************************************************************)
(* Statements of different goroutines on the one connection.  Every        *)
(* mutating operation of SQLiteDB is a single Exec; the pool has one       *)
(* connection, so the statements run one after the other, each on the      *)
(* table the one before it left.                                           *)
(***************************************************************************)
\* the table the calls start from: one record that owes its notification
ConcBase ==
    <<RowOf(ManagedObject(1, "u1", MarkerValue, ClusterStateExists,
                          DetectionSourceWatch, 0))>>

\* the mutating calls a goroutine can make; an insert gets its id at the call
ConcCalls ==
    [kind : {"insert"}, id : {0}, uid : UIDs, arg : {""}]
        \cup [kind : {"bump", "failed", "delete"}, id : {1}, uid : {""}, arg : {""}]
        \cup [kind : {"delivered"}, id : {1}, uid : {""}, arg : {"created", "deleted"}]
        \cup [kind : {"state"}, id : {0}, uid : {"u1"}, arg : {""}]

\* a variant in which the counter is computed from the row the caller saw
exec_FromSnapshot(l, op, seen, at) ==
    CASE op.kind = "insert" ->
             InsertManagedObject(l, ManagedObject(op.id, op.uid, MarkerValue,
                                                  ClusterStateExists,
                                                  DetectionSourceWatch, at))
      [] op.kind = "bump" ->
             MapRows(LAMBDA r :
                         IF r.ID = op.id /\ HasId(seen, op.id)
                         THEN [r EXCEPT !.NotificationAttempts =
                                            ById(seen, op.id).NotificationAttempts + 1,
                                        !.LastNotificationAttempt = FormatRFC3339(at)]
                         ELSE r, l)
      [] op.kind = "delivered" -> UpdateNotificationStatus(l, op.id, op.arg, at)
      [] op.kind = "failed" -> MarkNotificationFailed(l, op.id, 400)
      [] op.kind = "state" -> UpdateClusterState(l, op.uid, ClusterStateDeleted, at)
      [] op.kind = "delete" -> DeleteRecord(l, op.id)

\* the table after the statement of a call; seen is the table at the call
exec(l, op, seen, at) ==
    CASE op.kind = "insert" ->
             InsertManagedObject(l, ManagedObject(op.id, op.uid, MarkerValue,
                                                  ClusterStateExists,
                                                  DetectionSourceWatch, at))
      [] op.kind = "bump" -> IncrementNotificationAttempts(l, op.id, at)
      [] op.kind = "delivered" -> UpdateNotificationStatus(l, op.id, op.arg, at)
      [] op.kind = "failed" -> MarkNotificationFailed(l, op.id, 400)
      [] op.kind = "state" -> UpdateClusterState(l, op.uid, ClusterStateDeleted, at)
      [] op.kind = "delete" -> DeleteRecord(l, op.id)

InitConc ==
    /\ now = 0
    /\ cluster = [u \in UIDs |-> "absent"]
    /\ relist = {}
    /\ log = ConcBase
    /\ nextId = Len(ConcBase)
    /\ tickReady = FALSE
    /\ wpc = "idle"
    /\ pending = <<>>
    /\ inflight = None
    /\ resp = None
    /\ eligible = <<>>
    /\ cb = [t \in Threads |-> Idle]
    /\ acked = {}
    /\ rejected = {}
    /\ server = NewServer
    /\ pass = NoPass
    /\ rec = NotStarted
    /\ sd = Running

ConcUnchanged ==
    /\ UNCHANGED <<now, cluster, relist, workerVars, eligible, ghostVars, loopVars>>
    /\ pass' = NoPass

\* goroutine t calls an operation of SQLiteDB and waits for the connection
Call(t, call) ==
    /\ cb[t] = Idle
    /\ nextId' = IF call.kind = "insert" THEN nextId + 1 ELSE nextId
    /\ cb' = [cb EXCEPT ![t] =
                 [pc |-> "called",
                  op |-> IF call.kind = "insert"
                         THEN [call EXCEPT !.id = nextId + 1] ELSE call,
                  seen |-> log]]
    /\ UNCHANGED log
    /\ ConcUnchanged

\* the connection runs the statement of goroutine t
Exec(t) ==
    /\ cb[t].pc = "called"
    /\ log' = exec(log, cb[t].op, cb[t].seen, now)
    /\ cb' = [cb EXCEPT ![t] = [@ EXCEPT !.pc = "done"]]
    /\ UNCHANGED nextId
    /\ ConcUnchanged

NextConc ==
    \/ \E t \in Threads, call \in ConcCalls : Call(t, call)
    \/ \E t \in Threads : Exec(t)

SpecConc == InitConc /\ [][NextConc]_vars

(***************************************************************************)
(* The database on its own: a client calls the operations of SQLiteDB in   *)
(* any order with any arguments, as the tests of the package do, and the   *)
(* clock jumps between the calls.                                          *)
(***************************************************************************)
MaxRows == 2

DbTimes == {0, 2 * TicksPerSecond}

DbUnchanged ==
    /\ UNCHANGED <<cluster, relist, workerVars, eligible, cb, ghostVars, loopVars>>
    /\ pass' = NoPass

DbInsert(uid) ==
    /\ nextId < MaxRows
    /\ log' = InsertManagedObject(log,
                  ManagedObject(nextId + 1, uid, MarkerValue, ClusterStateExists,
                                DetectionSourceWatch, now))
    /\ nextId' = nextId + 1
    /\ UNCHANGED now
    /\ DbUnchanged

DbUpdateClusterState(uid, state, deletedAt) ==
    /\ log' = UpdateClusterState(log, uid, state, deletedAt)
    /\ UNCHANGED <<now, nextId>>
    /\ DbUnchanged

DbUpdateNotificationStatus(id, eventType) ==
    /\ log' = UpdateNotificationStatus(log, id, eventType, now)
    /\ UNCHANGED <<now, nextId>>
    /\ DbUnchanged

DbMarkNotificationFailed(id, statusCode) ==
    /\ log' = MarkNotificationFailed(log, id, statusCode)
    /\ UNCHANGED <<now, nextId>>
    /\ DbUnchanged

DbDeleteRecord(id) ==
    /\ log' = DeleteRecord(log, id)
    /\ UNCHANGED <<now, nextId>>
    /\ DbUnchanged

DbAdvance(t) ==
    /\ t > now
    /\ now' = t
    /\ UNCHANGED <<log, nextId>>
    /\ DbUnchanged

NextDB ==
    \/ \E uid \in UIDs : DbInsert(uid)
    \/ \E uid \in UIDs : DbUpdateClusterState(uid, ClusterStateDeleted, now)
    \/ \E id \in 1..MaxRows, eventType \in {"created", "deleted"} :
            DbUpdateNotificationStatus(id, eventType)
    \/ \E id \in 1..MaxRows : DbMarkNotificationFailed(id, 400)
    \/ \E id \in 1..MaxRows : DbDeleteRecord(id)
    \/ \E t \in DbTimes : DbAdvance(t)

SpecDB == Init /\ [][NextDB]_vars

(***************************************************************************)
(* The queries on a table whose rows were not inserted in the order of     *)
(* their created_at: the caller takes CreatedAt from its clock when it     *)
(* builds the object and inserts it later, so an object built earlier can  *)
(* get the later rowid.                                                    *)
(***************************************************************************)
DbInsertAt(uid, createdAt) ==
    /\ nextId < MaxRows
    /\ log' = InsertManagedObject(log,
                  ManagedObject(nextId + 1, uid, MarkerValue, ClusterStateExists,
                                DetectionSourceWatch, createdAt))
    /\ nextId' = nextId + 1
    /\ UNCHANGED now
    /\ DbUnchanged

NextFetch ==
    \/ \E uid \in UIDs, createdAt \in DbTimes : DbInsertAt(uid, createdAt)
    \/ \E uid \in UIDs : DbUpdateClusterState(uid, ClusterStateDeleted, now)
    \/ \E id \in 1..MaxRows, eventType \in {"created", "deleted"} :
            DbUpdateNotificationStatus(id, eventType)
    \/ \E id \in 1..MaxRows : DbMarkNotificationFailed(id, 400)

SpecFetch == Init /\ [][NextFetch]_vars

(***************************************************************************)
(* The request of a notification.  A client builds a notifier with a       *)
(* configuration and has it build the request of a record that owes a      *)
(* notification, as the tests of the package do.                           *)
(***************************************************************************)
\* the content type of CloudEvents in structured mode
CloudEventsContentType == "application/cloudevents+json; charset=UTF-8"

\* textproto.CanonicalMIMEHeaderKey on the header names of the model
CanonicalHeaderKey(k) == IF k = "content-type" THEN "Content-Type" ELSE k

\* Header.Set: the value of the canonical key is replaced
SetHeader(h, k, v) ==
    [x \in DOMAIN h \cup {CanonicalHeaderKey(k)} |->
        IF x = CanonicalHeaderKey(k) THEN v ELSE h[x]]

RECURSIVE SetHeaders(_, _)
SetHeaders(h, kvs) ==
    IF kvs = <<>> THEN h
    ELSE SetHeaders(SetHeader(h, kvs[1][1], kvs[1][2]), Tail(kvs))

\* buildRequest; headers is cfg.Endpoint.Headers in the order the range
\* statement yields it, requestId the value of newUUID, and the bearer
\* value stands for "Bearer " followed by the token
buildRequest(payload, authToken, headers, requestId) ==
    LET standard == SetHeaders(<<>>, << <<"Content-Type", "application/json">>,
                                        <<"User-Agent", "beacon">>,
                                        <<"X-Request-ID", requestId>>,
                                        <<"X-Event-ID", payload.ID>> >>)
        bearer == IF authToken # ""
                  THEN SetHeader(standard, "Authorization", authToken)
                  ELSE standard
    IN  [Method |-> "POST", Header |-> SetHeaders(bearer, headers), Body |-> payload]

\* the endpoint.headers maps of the configurations
HeaderConfigs ==
    {<<>>,
     << <<"X-Custom-Header", "custom-value">> >>,
     << <<"Content-Type", "text/plain">> >>,
     << <<"content-type", "text/plain">> >>,
     << <<"X-Custom-Header", "custom-value">>,
        <<"Content-Type", CloudEventsContentType>> >>}

AuthTokens == {"", "test-token-123"}

RequestIds == {"r1", "r2"}

\* processNotification up to client.Do, for the record of id
ProcessNotification(id, authToken, headers, requestId) ==
    /\ HasId(log, id)
    /\ \E obj \in {scanManagedObject(ById(log, id))} :
           \E eventType \in {EventTypeOf(obj)} :
               /\ eventType # ""
               /\ inflight' = [obj |-> Fetched(obj), eventType |-> eventType,
                               payload |-> buildPayload(obj, eventType),
                               request |-> buildRequest(buildPayload(obj, eventType),
                                                        authToken, headers, requestId)]
    /\ UNCHANGED <<now, cluster, relist, dbVars, tickReady, wpc, pending, resp, eligible, cb,
                   ghostVars, loopVars>>
    /\ pass' = NoPass

NextRequest ==
    \/ \E uid \in UIDs : DbInsert(uid)
    \/ \E uid \in UIDs : DbUpdateClusterState(uid, ClusterStateDeleted, now)
    \/ \E id \in 1..MaxRows, eventType \in {"created", "deleted"} :
            DbUpdateNotificationStatus(id, eventType)
    \/ \E id \in 1..MaxRows, authToken \in AuthTokens, headers \in HeaderConfigs,
           requestId \in RequestIds :
            ProcessNotification(id, authToken, headers, requestId)

SpecRequest == Init /\ [][NextRequest]_vars

(***************************************************************************)
(* The test endpoint.  handleEvent checks the method and the headers,      *)
(* looks the X-Event-ID up in the ids it tracks when idempotency is        *)
(* enabled, records the event and answers as its behaviour mode says.      *)
(***************************************************************************)
\* idempotency.maxTracked
MaxTracked == 10000

\* Header.Get(k) = "": the request does not carry the header
Missing(h, k) == k \notin DOMAIN h

\* isDuplicate
isDuplicate(srv, eventID) == eventID \in Range(srv.seenList)

\* trackEventID: the oldest id is evicted when the list is full
trackEventID(srv, eventID) ==
    [srv EXCEPT !.seenList =
        Append(IF Len(@) >= MaxTracked THEN Tail(@) ELSE @, eventID)]

\* handleEvent: the server after the request, and the status it answers
handleEvent(srv, request, idempotency, mode) ==
    IF request.Method # "POST" THEN [server |-> srv, StatusCode |-> 405]
    ELSE IF Missing(request.Header, "Content-Type")
            \/ request.Header["Content-Type"] # "application/json"
    THEN [server |-> srv, StatusCode |-> 415]
    ELSE IF Missing(request.Header, "X-Event-ID")
            \/ Missing(request.Header, "X-Request-ID")
    THEN [server |-> srv, StatusCode |-> 400]
    ELSE LET eventID == request.Header["X-Event-ID"]
         IN  IF idempotency /\ isDuplicate(srv, eventID)
             THEN [server |-> srv, StatusCode |-> 200]
             ELSE [server |->
                       [(IF idempotency THEN trackEventID(srv, eventID) ELSE srv)
                           EXCEPT !.recorded =
                               @ \cup {<<request.Body.ID, request.Body.EventType>>}],
                   StatusCode |-> IF mode = "failure" THEN 500 ELSE 200]

\* processNotification up to the return of client.Do, with the test
\* endpoint at the other end
DeliverTo(idempotency, mode, requestId) ==
    /\ wpc = "batch"
    /\ LET obj == Head(pending)
           eventType == EventTypeOf(obj)
           payload == buildPayload(obj, eventType)
           answer == handleEvent(server, buildRequest(payload, "", <<>>, requestId),
                                 idempotency, mode)
       IN  IF eventType = ""
           THEN /\ wpc' = IF Tail(pending) = <<>> THEN "idle" ELSE "batch"
                /\ UNCHANGED <<inflight, resp, ghostVars>>
           ELSE /\ answer.StatusCode \notin 200..299 => FailuresSoFar < MaxFailures
                /\ inflight' = [obj |-> obj, eventType |-> eventType, payload |-> payload]
                /\ resp' = Response(answer.StatusCode)
                /\ wpc' = "resp"
                /\ server' = answer.server
                /\ acked' = IF answer.StatusCode \in 200..299
                            THEN acked \cup {<<obj.ID, eventType>>}
                            ELSE acked
                /\ UNCHANGED rejected
    /\ pending' = Tail(pending)
    /\ UNCHANGED <<now, cluster, relist, dbVars, tickReady, eligible, cb, loopVars>>
    /\ pass' = NoPass

\* one resource, the notifier and the test endpoint with idempotency enabled
NextDedup ==
    \/ Observer(ReconUIDs)
    \/ Poll
    \/ \E mode \in {"success", "failure"} : DeliverTo(TRUE, mode, "r1")
    \/ HandleResponse(TRUE)
    \/ Tick(MaxNow)

SpecDedup == Init /\ [][NextDedup]_vars

(***************************************************************************)
(* Definitions the properties share.                                       *)
(***************************************************************************)
Rows == Range(log)

RowById(l, id) == CHOOSE r \in Range(l) : r.ID = id

HasRow(l, id) == \E r \in Range(l) : r.ID = id

\* a step of Deliver that sends a request
SendStep == wpc = "batch" /\ wpc' = "resp"

\* a step of HandleResponse
HandleStep == wpc = "resp" /\ wpc' # "resp"

AnswerIsSuccess == ~resp.err /\ resp.StatusCode \in 200..299

AnswerIsRetriable == resp.err \/ resp.StatusCode \in RetriableCodes

AnswerIsTerminal == ~AnswerIsSuccess /\ ~AnswerIsRetriable

\* every row but the one of id is the same before and after the step
OtherRowsKept(id) ==
    /\ Len(log') = Len(log)
    /\ \A i \in 1..Len(log) : log[i].ID # id => log'[i] = log[i]

\* the record of id is among the objects of a query's answer
Returned(objs, id) == \E i \in 1..Len(objs) : objs[i].ID = id

\* fetch_pending with a limit no smaller than the table returns the record
FetchedAsPending(l, id) == Returned(GetPendingNotifications(l, Len(l)), id)

\* the endpoint has acknowledged every transition the row owes
AllAcked(r) ==
    /\ <<r.ID, "created">> \in acked
    /\ r.ClusterState = ClusterStateDeleted => <<r.ID, "deleted">> \in acked

\* the endpoint has answered a delivery of the record non-retriably
Rejected(id) == \E rj \in rejected : rj[1] = id

\* every transition the row owes is flagged as delivered
Settled(r) ==
    /\ r.NotifiedCreated
    /\ r.ClusterState = ClusterStateDeleted => r.NotifiedDeleted

RECURSIVE Pow(_, _)
Pow(b, e) == IF e = 0 THEN 1 ELSE b * Pow(b, e - 1)

\* a variant without the cap at maxBackoff
calculateBackoff_Uncapped(attempt, initialBackoff, maxBackoff, multiplier, jitter, u) ==
    LET backoff == initialBackoff * Pow(multiplier, attempt)
        jitterRange == backoff * jitter
        jittered == backoff * 100 + (u * jitterRange) \div 100
    IN  IF jittered < 0 THEN 0 ELSE jittered

\* calculateBackoff in hundredths of a tick; u in -100..100 is the random
\* draw (mrand.Float64()*2-1) in hundredths
calculateBackoff(attempt, initialBackoff, maxBackoff, multiplier, jitter, u) ==
    LET raw == initialBackoff * Pow(multiplier, attempt)
        backoff == IF raw > maxBackoff THEN maxBackoff ELSE raw
        jitterRange == backoff * jitter
        jittered == backoff * 100 + (u * jitterRange) \div 100
    IN  IF jittered < 0 THEN 0 ELSE jittered

(***************************************************************************)
(* C1: the log holds at most one record per resource_uid.                  *)
(***************************************************************************)
C1_UniqueResourceUID ==
    \A i, j \in 1..Len(log) :
        log[i].ResourceUID = log[j].ResourceUID => i = j

(***************************************************************************)
(* C2: whatever the step at which the process is killed and restarted, no  *)
(* owed transition is lost: a record with a transition the endpoint has    *)
(* not acknowledged with 2xx, and no delivery of which was answered        *)
(* non-retriably, is in the log and fetch_pending returns it; a record     *)
(* leaves the log only after both its transitions were acknowledged.       *)
(***************************************************************************)
C2_NoOwedTransitionLost ==
    \A id \in 1..nextId :
        IF HasRow(log, id)
        THEN (~AllAcked(RowById(log, id)) /\ ~Rejected(id))
                 => FetchedAsPending(log, id)
        ELSE <<id, "created">> \in acked /\ <<id, "deleted">> \in acked

\* the process was killed between the 2xx answer and the update of the log:
\* the restarted process still has the record pending
C2_Witness ==
    /\ wpc = "idle"
    /\ relist # {}
    /\ \E r \in Rows : /\ <<r.ID, "created">> \in acked
                       /\ ~r.NotifiedCreated
                       /\ FetchedAsPending(log, r.ID)

C11_CleanerDeletesOnlyEligible ==
    [][(eligible # <<>> /\ eligible' = Tail(eligible)
            /\ HasRow(log, Head(eligible)) /\ ~HasRow(log', Head(eligible))) =>
          LET r == RowById(log, Head(eligible))
          IN  /\ r.ClusterState = ClusterStateDeleted
              /\ r.NotifiedCreated
              /\ r.NotifiedDeleted
              /\ ~r.NotificationFailed
              /\ r.DeletedAt # NULL
              /\ r.DeletedAt < FormatRFC3339(now - RetentionPeriod)]_vars

(***************************************************************************)
(* C4: a deleted notification is sent for a record only after the endpoint *)
(* has acknowledged the created notification of that record; for a record  *)
(* in state deleted whose created notification is not delivered the        *)
(* created notification is the one sent.                                   *)
(***************************************************************************)
C4_CreatedBeforeDeleted ==
    wpc = "resp" =>
        /\ inflight.eventType = "deleted"
               => <<inflight.obj.ID, "created">> \in acked
        /\ (inflight.obj.ClusterState = ClusterStateDeleted
                /\ ~inflight.obj.NotifiedCreated)
               => inflight.eventType = "created"

C4_Witness ==
    /\ wpc = "resp"
    /\ inflight.obj.ClusterState = ClusterStateDeleted
    /\ ~inflight.obj.NotifiedCreated
    /\ inflight.eventType = "created"

(***************************************************************************)
(* C5: after the n-th retriable failure of a record no request for it goes *)
(* out before min(initial_backoff * multiplier^n, max_backoff), less the   *)
(* jitter, has passed since the previous attempt.                          *)
(***************************************************************************)
C5_BackoffHonoured ==
    [][(SendStep /\ inflight'.obj.NotificationAttempts > 0) =>
          (now - inflight'.obj.LastNotificationAttempt) * 100 >=
              calculateBackoff(inflight'.obj.NotificationAttempts,
                               InitialBackoff, MaxBackoff, BackoffMultiplier,
                               JitterPercent, -100)]_vars

(***************************************************************************)
(* C6: a record is attempted at most max_attempts times; once it has been  *)
(* attempted max_attempts times without success it is permanently failed.  *)
(***************************************************************************)
C6_AttemptsBounded ==
    \A r \in Rows :
        r.NotificationAttempts >= MaxAttempts => r.NotificationFailed

Retentions == {0, 1, TicksPerSecond, 2 * TicksPerSecond}

C10_FailedNeverFetched ==
    \A r \in Rows :
        r.NotificationFailed =>
            /\ \A limit \in 0..(Len(log) + 1) :
                   ~Returned(GetPendingNotifications(log, limit), r.ID)
            /\ \A retention \in Retentions :
                   ~Returned(GetCleanupEligible(log, retention, now), r.ID)

\* a failed record that owes its created notification and that was deleted,
\* notified as deleted and has outlived the retention
C10_Witness ==
    \E r \in Rows :
        /\ r.NotificationFailed
        /\ ~r.NotifiedCreated
        /\ r.ClusterState = ClusterStateDeleted
        /\ r.NotifiedDeleted
        /\ r.DeletedAt # NULL
        /\ r.DeletedAt < FormatRFC3339(now - RetentionPeriod)

(***************************************************************************)
(* C12: for every record of the log, notified_deleted implies              *)
(* notified_created.                                                       *)
(***************************************************************************)
C12_DeletedImpliesCreated ==
    \A r \in Rows : r.NotifiedDeleted => r.NotifiedCreated

C12_Witness ==
    \E r \in Rows : /\ r.NotifiedDeleted
                    /\ r.NotifiedCreated
                    /\ r.DeletedNotificationSentAt # NULL

(***************************************************************************)
(* C13: after any sequence of Observer callbacks on one resource_uid the   *)
(* state the log reports for that resource_uid is the one the sequence     *)
(* implies: exists while the resource carries the marker, deleted once the *)
(* marker or the resource is gone.                                         *)
(***************************************************************************)
C13_StateFollowsCallbacks ==
    \A uid \in UIDs :
        LET obj == GetManagedObjectByUID(log, uid)
        IN  /\ cluster[uid] = "marked" =>
                   obj # None /\ obj.ClusterState = ClusterStateExists
            /\ (cluster[uid] \in {"unmarked", "gone"} /\ obj # None) =>
                   obj.ClusterState = ClusterStateDeleted

PassStep == pass'.ran

\* the log has a record of the resource in state exists
ActiveInLog(l, uid) ==
    \E r \in Range(l) : r.ResourceUID = uid /\ r.ClusterState = ClusterStateExists

\* the log agrees with the cluster about the resource
Agrees(l, uid) == ActiveInLog(l, uid) <=> cluster[uid] = "marked"

\* the rows the step has added
NewRows == {r \in Range(log') : ~HasRow(log, r.ID)}

C19_PresentOnlyTouched ==
    [][PassStep =>
          \A r \in Rows :
              (/\ r.ClusterState = ClusterStateExists
               /\ cluster[r.ResourceUID] = "marked")
                  => /\ HasRow(log', r.ID)
                     /\ RowById(log', r.ID) =
                            [r EXCEPT !.LastReconciled = RowById(log', r.ID).LastReconciled]
                     /\ \A n \in NewRows : n.ResourceUID # r.ResourceUID
                     /\ r.ResourceType \notin pass'.failed
                            => \E q \in Range(log') :
                                   /\ q.ResourceUID = r.ResourceUID
                                   /\ q.ClusterState = ClusterStateExists
                                   /\ q.LastReconciled = FormatRFC3339(now)]_vars

\* the listing came with another marker value than the one on record
C19_Witness ==
    /\ pass.ran
    /\ \E r \in Rows : /\ r.ResourceUID \in pass.differs
                       /\ r.AnnotationValue = MarkerValue
                       /\ r.NotifiedCreated
                       /\ r.LastReconciled = FormatRFC3339(now)

(***************************************************************************)
(* C20: when a kind fails in a pass, at the list of the cluster or at the  *)
(* query of the log, the pass leaves the records of that kind as they are  *)
(* and still reconciles the other kinds: their resources agree with the    *)
(* cluster afterwards.                                                     *)
(***************************************************************************)
C20_OtherKindsReconciled ==
    [][(PassStep /\ pass'.failed # {}) =>
          /\ \A uid \in UIDs :
                 KindOf(uid) \notin pass'.failed => Agrees(log', uid)
          /\ \A r \in Rows :
                 r.ResourceType \in pass'.failed => r \in Range(log')]_vars

\* the first configured kind failed and the second was repaired
C20_Witness ==
    /\ pass.ran
    /\ pass.failed = {Kinds[1]}
    /\ \E uid \in pass.created \cup pass.deleted : KindOf(uid) = Kinds[2]

(***************************************************************************)
(* C21: a pass of the reconciler, at startup or at a tick, is over within  *)
(* reconciliation.timeout of its start, also when a list call of the       *)
(* cluster does not return.                                                *)
(***************************************************************************)
C21_PassWithinTimeout ==
    rec.pc \in {"pass", "list"} => now - rec.since <= ReconcileTimeout

(***************************************************************************)
(* C22: UpdateNotificationStatus, UpdateClusterState to deleted and        *)
(* MarkNotificationFailed are idempotent: on every table, the statement    *)
(* run twice with the same arguments leaves the table that running it      *)
(* once leaves, and run again a second later it changes nothing but the    *)
(* timestamp.                                                              *)
(***************************************************************************)
\* the table without the timestamps the two timed statements write
Untimed(l) ==
    MapRows(LAMBDA r : [r EXCEPT !.DeletedAt = NULL,
                                 !.CreatedNotificationSentAt = NULL,
                                 !.DeletedNotificationSentAt = NULL], l)

FailureCodes == {400, 404}

C23_DeletedAtIffDeleted ==
    \A r \in Rows :
        (r.DeletedAt # NULL) <=> (r.ClusterState = ClusterStateDeleted)

\* after a pass that marked a missed deletion: a record the pass moved to
\* deleted, in a log the watcher has written to as well
C23_Witness ==
    /\ pass.ran
    /\ \E r \in Rows : /\ r.ResourceUID \in pass.deleted
                       /\ r.ClusterState = ClusterStateDeleted
                       /\ r.DeletedAt # NULL
    /\ \E r \in Rows : r.DetectionSource = DetectionSourceWatch
    /\ Len(log) > 1

(***************************************************************************)
(* C24: with a limit no smaller than the number of records,                *)
(* GetPendingNotifications returns each record once that is not            *)
(* terminal-failed and either lacks notified_created or is deleted and     *)
(* lacks notified_deleted, and returns no other record.                    *)
(***************************************************************************)
OwesNotification(r) ==
    /\ ~r.NotifiedCreated \/ (r.ClusterState = ClusterStateDeleted /\ ~r.NotifiedDeleted)
    /\ ~r.NotificationFailed

C24_FetchesExactlyPending ==
    \A limit \in {Len(log), Len(log) + 1} :
        \E objs \in {GetPendingNotifications(log, limit)} :
            /\ {objs[i].ID : i \in 1..Len(objs)}
                   = {r.ID : r \in {x \in Rows : OwesNotification(x)}}
            /\ \A i, j \in 1..Len(objs) : objs[i].ID = objs[j].ID => i = j
            /\ \A i \in 1..Len(objs) :
                   objs[i] = scanManagedObject(RowById(log, objs[i].ID))

\* a table with a record that owes only its deleted notification and a
\* record that owes nothing
C24_Witness ==
    /\ \E r \in Rows : /\ r.NotifiedCreated
                       /\ r.ClusterState = ClusterStateDeleted
                       /\ ~r.NotifiedDeleted
                       /\ ~r.NotificationFailed
    /\ \E r \in Rows : r.NotifiedCreated /\ r.NotifiedDeleted

(***************************************************************************)
(* C25: GetPendingNotifications(limit) returns at most limit records, in   *)
(* non-decreasing order of created_at, and they are the oldest pending     *)
(* ones: all of the pending records when there are no more than limit, and *)
(* otherwise limit of them, none created later than a pending record that  *)
(* is left out.                                                            *)
(***************************************************************************)
C25_OldestFirstUpToLimit ==
    \A limit \in 0..(Len(log) + 1) :
        \E objs \in {GetPendingNotifications(log, limit)},
           owing \in {{r \in Rows : OwesNotification(r)}} :
            /\ Len(objs) <= limit
            /\ Len(objs) = IF Cardinality(owing) <= limit
                           THEN Cardinality(owing) ELSE limit
            /\ \A i \in 1..Len(objs) : \E r \in owing : r.ID = objs[i].ID
            /\ \A i, j \in 1..Len(objs) : objs[i].ID = objs[j].ID => i = j
            /\ \A i, j \in 1..Len(objs) :
                   i < j => objs[i].CreatedAt <= objs[j].CreatedAt
            /\ \A r \in owing :
                   ~Returned(objs, r.ID)
                       => \A i \in 1..Len(objs) :
                              objs[i].CreatedAt <= ParseRFC3339(r.CreatedAt)

\* two pending records, the one with the later rowid created earlier
C25_Witness ==
    \E i, j \in 1..Len(log) :
        /\ i < j
        /\ log[j].CreatedAt < log[i].CreatedAt
        /\ OwesNotification(log[i])
        /\ OwesNotification(log[j])

(***************************************************************************)
(* C26: every record GetCleanupEligible(R) returns is deleted, has         *)
(* notified_deleted, is not terminal-failed and has a deleted_at more than *)
(* R before the time of the call; a record that exists, whose deleted      *)
(* notification is not sent, or that was deleted no more than R ago is not *)
(* returned.                                                               *)
(***************************************************************************)
\* ManagedObject.IsEligibleForCleanup, with time.Since taken at the call
IsEligibleForCleanup(obj, retentionPeriod, at) ==
    /\ obj.ClusterState = ClusterStateDeleted
    /\ obj.NotifiedDeleted
    /\ ~obj.NotificationFailed
    /\ obj.DeletedAt # NULL
    /\ at - obj.DeletedAt > retentionPeriod

C26_CleanupOnlyEligible ==
    \A retention \in Retentions :
        \E objs \in {GetCleanupEligible(log, retention, now)} :
            /\ \A i \in 1..Len(objs) :
                   /\ HasRow(log, objs[i].ID)
                   /\ objs[i] = scanManagedObject(RowById(log, objs[i].ID))
                   /\ IsEligibleForCleanup(objs[i], retention, now)
            /\ \A r \in Rows :
                   (\/ r.ClusterState = ClusterStateExists
                    \/ ~r.NotifiedDeleted
                    \/ r.DeletedAt = NULL
                    \/ now - ParseRFC3339(r.DeletedAt) <= retention)
                       => ~Returned(objs, r.ID)

\* with a retention of a second, a record returned beside a deleted and
\* notified record that is too recent
C26_Witness ==
    /\ \E r \in Rows : Returned(GetCleanupEligible(log, TicksPerSecond, now), r.ID)
    /\ \E r \in Rows :
           /\ r.ClusterState = ClusterStateDeleted
           /\ r.NotifiedDeleted
           /\ ~r.NotificationFailed
           /\ ~Returned(GetCleanupEligible(log, TicksPerSecond, now), r.ID)

(***************************************************************************)
(* C27: the log is left as it is by an add callback for a resource without *)
(* the marker, by an update callback whose old and new object both carry   *)
(* the marker or both lack it, whatever the marker's values, and by a      *)
(* delete callback for a uid that has no record.                           *)
(***************************************************************************)
AddWithoutMarker(uid) == OnAdd(uid, FALSE)

UpdateKeepsMarker(uid) == OnUpdate(uid, cluster[uid] = "marked")

DeleteUntracked(uid) ==
    /\ OnDelete(uid)
    /\ \A r \in Rows : r.ResourceUID # uid

C27_UntrackedEventsChangeNothing ==
    [][\A uid \in UIDs :
          /\ UNCHANGED dbVars
                 \/ ~(\/ AddWithoutMarker(uid)
                      \/ UpdateKeepsMarker(uid)
                      \/ DeleteUntracked(uid))
          /\ (cluster[uid] = "marked" /\ UpdateKeepsMarker(uid)) =>
                 \A old, new \in MarkerValues :
                     handleUpdate(log,
                                  [UID |-> uid, Annotated |-> TRUE, Value |-> old],
                                  [UID |-> uid, Annotated |-> TRUE, Value |-> new],
                                  nextId + 1, now) = log]_vars

\* beside a record of the log, a resource that was added without the
\* marker, updated without gaining it and deleted, and has no record
C27_Witness ==
    \E uid \in UIDs :
        /\ cluster[uid] = "gone"
        /\ \A r \in Rows : r.ResourceUID # uid
        /\ \E r \in Rows : r.ClusterState = ClusterStateExists /\ r.NotifiedCreated

(***************************************************************************)
(* C28: on shutdown the watcher is stopped before the token is cancelled,  *)
(* and main then waits for the loops no longer than the grace window.      *)
(***************************************************************************)
\* main has called cancel() only after w.Stop()
StoppedBeforeCancel ==
    sd.main \in {"cancelled", "wait", "done"} => ~sd.watching

\* main is not in g.Wait() later than the grace window after cancel()
WaitWithinGrace ==
    sd.main = "wait" => now - sd.since <= ShutdownTimeout

C28_StopCancelBoundedWait == StoppedBeforeCancel /\ WaitWithinGrace

(***************************************************************************)
(* C29: once the token is cancelled, no loop begins a unit of work: no     *)
(* poll, record, pass, repair, cleanup or delete; and every loop returns.  *)
(***************************************************************************)
LoopsReturn == sd.ctx ~> LoopsExited

C29_NoUnitAfterCancel == [](sd.late = {}) /\ LoopsReturn

(***************************************************************************)
(* C29, as the code has it: a loop whose ticker fires can still enter a    *)
(* poll, a pass or a cleanup after the token is cancelled, but then no     *)
(* record is sent, no record is deleted and no record is repaired: the     *)
(* notifier finishes the record it is processing and leaves the rest of    *)
(* the batch; and every loop returns.                                      *)
(***************************************************************************)
C29_NoEffectAfterCancel ==
    [](sd.late \subseteq {"poll", "pass", "cleanup"}) /\ LoopsReturn

\* the loops have returned; a poll was entered after the token was
\* cancelled and a record of the log still owes its notification
C29_Witness ==
    /\ sd.ctx
    /\ LoopsExited
    /\ "poll" \in sd.late
    /\ \E r \in Rows : OwesNotification(r)

(***************************************************************************)
(* C30: mutating operations that different goroutines issue at the same    *)
(* time are serialised.  At every state the table is what the statements   *)
(* run so far give when applied one after the other, in some order, to the *)
(* table the calls started from: every insert of a distinct record is in   *)
(* the table, and the attempts counter of a record has gone up by the      *)
(* number of increments.                                                   *)
(***************************************************************************)
DoneThreads == {t \in Threads : cb[t].pc = "done"}

\* the orders in which the statements run so far can have run
SerialOrders ==
    {order \in UNION {[1..n -> DoneThreads] : n \in {Cardinality(DoneThreads)}} :
         \A i, j \in DOMAIN order : order[i] = order[j] => i = j}

RECURSIVE ApplyInOrder(_, _)
ApplyInOrder(l, order) ==
    IF order = <<>> THEN l
    ELSE ApplyInOrder(exec(l, cb[Head(order)].op, l, now), Tail(order))

Bumps(id) == {t \in DoneThreads : cb[t].op.kind = "bump" /\ cb[t].op.id = id}

C30_Serialised ==
    /\ \E order \in SerialOrders : ApplyInOrder(ConcBase, order) = log
    /\ \A t \in DoneThreads :
           (cb[t].op.kind = "insert" /\ ~\E d \in DoneThreads :
                                            cb[d].op.kind = "delete" /\ cb[d].op.id = cb[t].op.id)
               => HasId(log, cb[t].op.id)
    /\ \A r \in Rows :
           r.NotificationAttempts
               = (IF HasId(ConcBase, r.ID)
                  THEN ById(ConcBase, r.ID).NotificationAttempts ELSE 0)
                 + Cardinality(Bumps(r.ID))

\* two goroutines have incremented the attempts of the same record
C30_Witness ==
    /\ DoneThreads = Threads
    /\ \A t \in Threads : cb[t].op.kind = "bump"
    /\ ById(log, 1).NotificationAttempts = Cardinality(Threads)

(***************************************************************************)
(* C31: with a non-empty annotation.values no record is inserted, by the   *)
(* Observer or by the Reconciler, for a resource whose marker value is     *)
(* outside the list.                                                       *)
(***************************************************************************)
C31_OnlyListedValuesTracked ==
    AnnotationValues # {} =>
        \A r \in Rows : r.AnnotationValue \in AnnotationValues

(***************************************************************************)
(* C32: every delivery request carries Content-Type                        *)
(* application/cloudevents+json; charset=UTF-8, whatever endpoint.headers  *)
(* holds, an entry for Content-Type included.                              *)
(***************************************************************************)
C32_ContentTypeFixed ==
    "request" \in DOMAIN inflight =>
        inflight.request.Header["Content-Type"] = CloudEventsContentType

(***************************************************************************)
(* C33: once a record is inserted, its detection_source, labels and        *)
(* annotations stay as they are under every later operation of the         *)
(* Observer, the Delivery Worker, the Reconciler and the Cleaner.          *)
(***************************************************************************)
C33_IngestFieldsImmutable ==
    [][UNCHANGED log \/
       \A i \in 1..Len(log), j \in 1..Len(log') :
          log[i].ID = log'[j].ID =>
              /\ log'[j].DetectionSource = log[i].DetectionSource
              /\ log'[j].Labels = log[i].Labels
              /\ log'[j].Annotations = log[i].Annotations]_vars

\* a record the watcher inserted that the notifier, the reconciler and the
\* watcher have each updated since
C33_Witness ==
    \E r \in Rows : /\ r.DetectionSource = DetectionSourceWatch
                    /\ r.Labels # <<>>
                    /\ r.NotifiedCreated
                    /\ r.NotificationAttempts > 0
                    /\ r.LastReconciled # NULL
                    /\ r.ClusterState = ClusterStateDeleted

(***************************************************************************)
(* C34: for every attempt count n the computed backoff lies within         *)
(* min(initial_backoff * multiplier^n, max_backoff) plus or minus the      *)
(* jitter fraction; at n = 0 it is initial_backoff within the jitter, and  *)
(* for large n it exceeds max_backoff by no more than the jitter.          *)
(***************************************************************************)
\* an attempt count far past the cap, as in TestCalculateBackoff_CappedAtMax
LargeAttempt == 10

\* <<initial, max, multiplier, jitter in percent>> of the retry settings
BackoffConfigs ==
    {<<InitialBackoff, MaxBackoff, BackoffMultiplier, JitterPercent>>,
     <<InitialBackoff, MaxBackoff, BackoffMultiplier, 0>>,
     <<TicksPerSecond, 300 * TicksPerSecond, 2, 10>>,
     <<TicksPerSecond, 30 * TicksPerSecond, 2, 100>>,
     <<InitialBackoff, MaxBackoff, 1, 10>>}

\* values of mrand.Float64()*2-1, in hundredths
Draws == {-100, -37, 0, 50, 99}

C34_BackoffWithinJitter ==
    (wpc = "resp" /\ ~resp.err /\ isRetriable(resp.StatusCode)) =>
        \A extra \in {0, LargeAttempt}, c \in BackoffConfigs, u \in Draws :
            LET n == inflight.obj.NotificationAttempts + extra
                raw == c[1] * Pow(c[3], n)
                nominal == IF raw > c[2] THEN c[2] ELSE raw
                backoff == calculateBackoff(n, c[1], c[2], c[3], c[4], u)
            IN  /\ backoff >= nominal * (100 - c[4])
                /\ backoff <= nominal * (100 + c[4])
                /\ n = 0 => /\ backoff >= c[1] * (100 - c[4])
                            /\ backoff <= c[1] * (100 + c[4])
                /\ backoff <= c[2] * (100 + c[4])

\* the second retriable answer for a record: the backoff of attempt 1
C34_Witness ==
    /\ wpc = "resp"
    /\ ~resp.err
    /\ isRetriable(resp.StatusCode)
    /\ inflight.obj.NotificationAttempts = 1
    /\ calculateBackoff(1 + LargeAttempt, InitialBackoff, MaxBackoff, BackoffMultiplier,
                        JitterPercent, 99) > MaxBackoff * 100

\* C35: a reconcile pass never moves to deleted the record of a resource
\* that is in the cluster with the marker when the pass writes, also when
\* the watcher recorded the resource between the pass's list of the cluster
\* and its query of the log.
C35_PassKeepsLiveRecords ==
    [][(rec.pc = "query" /\ rec'.pc = "pass") =>
          \A i \in 1..Len(log) :
              (/\ log[i].ClusterState = ClusterStateExists
               /\ log'[i].ClusterState = ClusterStateDeleted)
                  => cluster[log[i].ResourceUID] # "marked"]_vars

\* C36: with an endpoint that drops every request whose event id it has
\* seen, each notification the log holds as delivered was processed by the
\* endpoint: the created and the deleted notification of a record both.
C36_DedupEndpointProcessesBoth ==
    \A r \in Rows :
        /\ r.NotifiedCreated => <<r.ID, "created">> \in server.recorded
        /\ r.NotifiedDeleted => <<r.ID, "deleted">> \in server.recorded

\* C37: a record that is pending is attempted at some later point, also
\* while batch_size older pending records fail at every attempt with a
\* retriable outcome.
C37_PendingEventuallyAttempted ==
    \A id \in 1..MaxInserts :
        (\E r \in Rows : r.ID = id /\ PendingRow(r))
            ~> (wpc = "resp" /\ inflight.obj.ID = id)

\* C38: when the endpoint answered a notification with 2xx and the
\* statement that marks it delivered failed, the record is still pending
\* for that transition, and the transition is sent again with the same
\* event id.
C38_ResentAfterFailedMark ==
    \A id \in 1..MaxInserts, eventType \in {"created", "deleted"} :
        (/\ <<id, eventType>> \in acked
         /\ ~(wpc = "resp" /\ inflight.obj.ID = id)
         /\ \E r \in Rows : /\ r.ID = id
                            /\ PendingRow(r)
                            /\ EventTypeOf(scanManagedObject(r)) = eventType)
            ~> (/\ wpc = "resp"
                /\ inflight.obj.ID = id
                /\ inflight.eventType = eventType
                /\ inflight.payload.ID = id)

\* C39: when the list call of a kind fails in one of its namespaces, the
\* pass leaves the records of that kind as they are: none is inserted, none
\* changes its state, whatever the other namespaces returned.
C39_FailedListRepairsNothing ==
    [][(/\ rec.pc = "pass"
        /\ rec'.pc = "pass"
        /\ rec.kinds # <<>>
        /\ rec'.kinds = Tail(rec.kinds)
        /\ rec'.fails # {})
           => {r \in Range(log') : r.ResourceType = rec'.kind}
                  = {r \in Range(log) : r.ResourceType = rec'.kind}]_vars

\* a kind with a marked resource the log has no active record of, or an
\* active record whose resource is gone, right after a pass listed it with
\* a failing namespace
C39_Witness ==
    /\ rec.pc = "pass"
    /\ "fails" \in DOMAIN rec
    /\ rec.fails # {}
    /\ \E uid \in UIDs :
           /\ KindOf(uid) = rec.kind
           /\ \/ /\ cluster[uid] = "marked"
                 /\ NamespaceOf(uid) \notin rec.fails
                 /\ ~\E r \in Rows : r.ResourceUID = uid
              \/ /\ cluster[uid] = "gone"
                 /\ \E r \in Rows : /\ r.ResourceUID = uid
                                    /\ r.ClusterState = ClusterStateExists

\* C40: the delivery state of a record only moves forward: cluster_state
\* does not go from deleted back to exists, notified_created,
\* notified_deleted and notification_failed do not go from true to false,
\* and notification_attempts does not decrease.
C40_DeliveryStateMonotone ==
    [][UNCHANGED log \/
       \A i \in 1..Len(log), j \in 1..Len(log') :
           log[i].ID = log'[j].ID =>
               /\ log[i].ClusterState = ClusterStateDeleted
                      => log'[j].ClusterState = ClusterStateDeleted
               /\ log[i].NotifiedCreated => log'[j].NotifiedCreated
               /\ log[i].NotifiedDeleted => log'[j].NotifiedDeleted
               /\ log[i].NotificationFailed => log'[j].NotificationFailed
               /\ log'[j].NotificationAttempts >= log[i].NotificationAttempts]_vars

\* a record that failed an attempt and then had both notifications
\* delivered, and one that was given up
C40_Witness ==
    /\ \E r \in Rows : /\ r.NotificationAttempts > 0
                       /\ r.NotifiedCreated
                       /\ r.NotifiedDeleted
                       /\ r.ClusterState = ClusterStateDeleted
    /\ \E r \in Rows : r.NotificationFailed

====
